---- MODULE Spec2Model ----
(***************************************************************************)
(* Boundary rule engine of the MIA RAG repository: FilePath resolution,    *)
(* the specification algebra with its BoundaryAllowed policy, the import   *)
(* extractor and validation chain, and the runs of check_conflicts.main    *)
(* and check_boundaries.main over a batch of candidate files.              *)
(*                                                                         *)
(* Python strings are modelled as sequences of one-character strings, so   *)
(* that startswith, substring search, replace and Path.suffix are computed *)
(* character by character as the code computes them.  Instance ids are     *)
(* only ever compared for equality and stay TLA+ strings.                  *)
(***************************************************************************)
EXTENDS Naturals, Sequences, FiniteSets, TLC

VARIABLES
    path,        \* raw path handed to FilePath.from_path (project-relative)
    instance,    \* acting instance id
    dirs,        \* instance -> directories map read by the owner resolver
    origin,      \* how file_path was made: "none", "from_path", "constructor"
    file_path,   \* the FilePath value object
    checked,     \* whether the boundary rules have been evaluated on file_path
    allowed,     \* BoundaryAllowed(instance).is_satisfied_by(file_path)
    import_stmt, \* the ImportStatement being validated
    ctx,         \* the ValidationContext of the run
    op,          \* which validation entry point has run: "none", a validator, "handle"
    result,      \* what a single validator's validate() returned
    violations,  \* what handle() of the default chain returned
    h_chain,     \* a chain of validators linked through _next, head first
    h_pc,        \* position of the handle() recursion: "call", "return", "done"
    h_frames,    \* the violations list of every active handle() frame, outermost first
    h_calls,     \* the validate() invocations so far, as positions in h_chain
    h_result,    \* what the outermost handle() returned
    s_spec,      \* a specification object of the algebra
    s_inverts,   \* how many times ~ has been applied to reach s_spec
    s_candidate, \* the FilePath the specifications are evaluated on
    s_evaluated, \* the numbers of inversions at which is_satisfied_by has been called
    s_verdict,   \* what is_satisfied_by returned, by number of inversions
    e_file,      \* the file handed to extract_imports
    e_pc,        \* "call" before extract_imports has run, "done" after
    e_outcome,   \* how extract_imports ended: the list returned or the exception raised
    b_entry,     \* the entry point of the run: "check_conflicts" or "check_boundaries"
    b_instance,  \* the current instance of the run, None when none can be detected
    b_strict,    \* the --strict flag
    b_files,     \* the candidate files of the run, in the order they are checked
    b_pc,        \* position of the run: "main", "loop", "sort", "report", "exited", "crashed"
    b_index,     \* how many candidate files have been checked
    b_violations, \* check_all_boundaries' list of BoundaryViolation
    b_results,   \* _check_files' lists of violations, warnings and ok_files
    b_success,   \* the success flag returned by check_all_boundaries
    b_exit,      \* the exit status of the process, once b_pc is "exited" or "crashed"
    v_instances, \* ctx.instances of ValidateMappingsCommand: name and directories of each
    v_disk,      \* the directories that exist on disk
    v_pc,        \* position of execute(): "instance", "directory", "summary", "done"
    v_i,         \* index of the instance the outer loop is at
    v_j,         \* index of the directory the inner loop is at
    v_all_valid, \* execute()'s all_valid
    v_all_paths, \* execute()'s all_paths
    v_output_lines, \* execute()'s output_lines
    v_result,    \* the CommandResult returned
    o_path,      \* the path handed to check_file_ownership
    o_instance,  \* the instance handed to check_file_ownership
    o_pc,        \* "call" before check_file_ownership has run, "done" after
    o_verdict    \* what check_file_ownership returned

boundaryVars == <<path, instance, dirs, origin, file_path, checked, allowed>>
importVars   == <<import_stmt, ctx, op, result, violations>>
handleVars   == <<h_chain, h_pc, h_frames, h_calls, h_result>>
algebraVars  == <<s_spec, s_inverts, s_candidate, s_evaluated, s_verdict>>
extractVars  == <<e_file, e_pc, e_outcome>>
batchVars    == <<b_entry, b_instance, b_strict, b_files, b_pc, b_index, b_violations,
                  b_results, b_success, b_exit>>
validateVars == <<v_instances, v_disk, v_pc, v_i, v_j, v_all_valid, v_all_paths,
                  v_output_lines, v_result>>
ownershipVars == <<o_path, o_instance, o_pc, o_verdict>>
vars == <<boundaryVars, importVars, handleVars, algebraVars, extractVars, batchVars,
          validateVars, ownershipVars>>

\* Python's None
None == "None"

----------------------------------------------------------------------------
(* str operations *)

\* s.startswith(p)
StartsWith(s, p) == Len(p) <= Len(s) /\ SubSeq(s, 1, Len(p)) = p

\* p in s
Contains(s, p) == \E i \in 0..(Len(s) - Len(p)) : SubSeq(s, i + 1, i + Len(p)) = p

SetMax(S) == CHOOSE x \in S : \A y \in S : y <= x
SetMin(S) == CHOOSE x \in S : \A y \in S : x <= y

\* PurePath.name: the final path component
PathName(p) ==
    LET slashes == {i \in 1..Len(p) : p[i] = "/"}
        last == IF slashes = {} THEN 0 ELSE SetMax(slashes)
    IN  SubSeq(p, last + 1, Len(p))

\* PurePath.suffix: name[i:] for i = name.rfind("."), when 0 < i < len(name) - 1
PathSuffix(p) ==
    LET name == PathName(p)
        dots == {i \in 1..Len(name) : name[i] = "."}
        i    == IF dots = {} THEN 0 ELSE SetMax(dots)
    IN  IF i > 1 /\ i < Len(name) THEN SubSeq(name, i, Len(name)) ELSE <<>>

----------------------------------------------------------------------------
(* scripts/instance_map.py *)

Instances == {"instance1", "instance2", "instance3", "instance4", "instance5", "instance6"}

INSTANCE_DIRECTORIES == <<
    [instance_id |-> "instance1", directories |-> <<
        \* "src/mia_rag/storage", "src/mia_rag/pipeline"
        <<"s","r","c","/","m","i","a","_","r","a","g","/","s","t","o","r","a","g","e">>, <<"s","r","c","/","m","i","a","_","r","a","g","/","p","i","p","e","l","i","n","e">>,
        \* "tests/unit/instance1_storage", "tests/unit/instance1_pipeline"
        <<"t","e","s","t","s","/","u","n","i","t","/","i","n","s","t","a","n","c","e","1","_","s","t","o","r","a","g","e">>, <<"t","e","s","t","s","/","u","n","i","t","/","i","n","s","t","a","n","c","e","1","_","p","i","p","e","l","i","n","e">>>>],
    [instance_id |-> "instance2", directories |-> <<
        \* "src/mia_rag/embeddings", "tests/unit/instance2_embeddings"
        <<"s","r","c","/","m","i","a","_","r","a","g","/","e","m","b","e","d","d","i","n","g","s">>, <<"t","e","s","t","s","/","u","n","i","t","/","i","n","s","t","a","n","c","e","2","_","e","m","b","e","d","d","i","n","g","s">>>>],
    [instance_id |-> "instance3", directories |-> <<
        \* "src/mia_rag/vectordb", "tests/unit/instance3_weaviate"
        <<"s","r","c","/","m","i","a","_","r","a","g","/","v","e","c","t","o","r","d","b">>, <<"t","e","s","t","s","/","u","n","i","t","/","i","n","s","t","a","n","c","e","3","_","w","e","a","v","i","a","t","e">>>>],
    [instance_id |-> "instance4", directories |-> <<
        \* "src/mia_rag/api", "tests/unit/instance4_api"
        <<"s","r","c","/","m","i","a","_","r","a","g","/","a","p","i">>, <<"t","e","s","t","s","/","u","n","i","t","/","i","n","s","t","a","n","c","e","4","_","a","p","i">>>>],
    [instance_id |-> "instance5", directories |-> <<
        \* "src/mia_rag/mcp", "tests/unit/instance5_mcp"
        <<"s","r","c","/","m","i","a","_","r","a","g","/","m","c","p">>, <<"t","e","s","t","s","/","u","n","i","t","/","i","n","s","t","a","n","c","e","5","_","m","c","p">>>>],
    [instance_id |-> "instance6", directories |-> <<
        \* "src/mia_rag/monitoring", "tests/unit/instance6_monitoring"
        <<"s","r","c","/","m","i","a","_","r","a","g","/","m","o","n","i","t","o","r","i","n","g">>, <<"t","e","s","t","s","/","u","n","i","t","/","i","n","s","t","a","n","c","e","6","_","m","o","n","i","t","o","r","i","n","g">>,
        \* "tests/integration", "tests/scale", "tests/contract"
        <<"t","e","s","t","s","/","i","n","t","e","g","r","a","t","i","o","n">>, <<"t","e","s","t","s","/","s","c","a","l","e">>, <<"t","e","s","t","s","/","c","o","n","t","r","a","c","t">>>>] >>

\* get_instance_for_path returning the last instance with a matching directory
get_instance_for_path_LastMatch(m, p) ==
    LET hits == {k \in 1..Len(m) :
                    \E j \in 1..Len(m[k].directories) : StartsWith(p, m[k].directories[j])}
    IN  IF hits = {} THEN None ELSE m[SetMax(hits)].instance_id

\* for instance_id, directories in m.items(): for directory in directories:
\*     if path.startswith(directory): return instance_id
get_instance_for_path(m, p) ==
    LET hits == {k \in 1..Len(m) :
                    \E j \in 1..Len(m[k].directories) : StartsWith(p, m[k].directories[j])}
    IN  IF hits = {} THEN None ELSE m[SetMin(hits)].instance_id

    \* "src/mia_rag/interfaces", "src/mia_rag/common", "docs", "scripts"
shared_dirs == <<<<"s","r","c","/","m","i","a","_","r","a","g","/","i","n","t","e","r","f","a","c","e","s">>, <<"s","r","c","/","m","i","a","_","r","a","g","/","c","o","m","m","o","n">>, <<"d","o","c","s">>, <<"s","c","r","i","p","t","s">>,
                 \* ".github", ".claude"
                 <<".","g","i","t","h","u","b">>, <<".","c","l","a","u","d","e">>>>

is_shared_path(p) == \E k \in 1..Len(shared_dirs) : StartsWith(p, shared_dirs[k])

----------------------------------------------------------------------------
(* scripts/domain/boundaries.py *)

    \* ".github/", "pyproject.toml", "poetry.lock", ".gitignore"
config_patterns == <<<<".","g","i","t","h","u","b","/">>, <<"p","y","p","r","o","j","e","c","t",".","t","o","m","l">>, <<"p","o","e","t","r","y",".","l","o","c","k">>, <<".","g","i","t","i","g","n","o","r","e">>,
                     \* ".pre-commit-config.yaml", ".instance", "mise.toml", "README.md"
                     <<".","p","r","e","-","c","o","m","m","i","t","-","c","o","n","f","i","g",".","y","a","m","l">>, <<".","i","n","s","t","a","n","c","e">>, <<"m","i","s","e",".","t","o","m","l">>, <<"R","E","A","D","M","E",".","m","d">>,
                     \* "LICENSE"
                     <<"L","I","C","E","N","S","E">>>>

_is_config_file(path_str) ==
    \E k \in 1..Len(config_patterns) :
        Contains(path_str, config_patterns[k]) \/ path_str = config_patterns[k]

\* the project root the relative paths are resolved against
    \* "/repo"
project_root == <<"/","r","e","p","o">>

\* The dataclass constructor.
FilePath(abs, rel, owner, test, shared, config, ext) ==
    [absolute |-> abs, relative_to_project |-> rel, instance_owner |-> owner,
     is_test_file |-> test, is_shared |-> shared, is_config |-> config,
     file_extension |-> ext]

\* from_path resolving the owner of shared paths too
from_path_OwnerOfShared(p, m) ==
    LET path_obj     == project_root \o <<"/">> \o p
        relative     == p
        path_str     == relative
        \* "tests/", "tests/"
        is_test_file == Contains(path_str, <<"t","e","s","t","s","/">>) \/ StartsWith(path_str, <<"t","e","s","t","s","/">>)
        is_shared    == is_shared_path(path_str)
        is_config    == _is_config_file(path_str)
        file_extension == PathSuffix(path_obj)
        instance_owner == IF ~is_config
                          THEN get_instance_for_path(m, path_str) ELSE None
    IN  FilePath(path_obj, relative, instance_owner, is_test_file, is_shared, is_config,
                 file_extension)

\* from_path resolving the owner of config paths too
from_path_OwnerOfConfig(p, m) ==
    LET path_obj     == project_root \o <<"/">> \o p
        relative     == p
        path_str     == relative
        \* "tests/", "tests/"
        is_test_file == Contains(path_str, <<"t","e","s","t","s","/">>) \/ StartsWith(path_str, <<"t","e","s","t","s","/">>)
        is_shared    == is_shared_path(path_str)
        is_config    == _is_config_file(path_str)
        file_extension == PathSuffix(path_obj)
        instance_owner == IF ~is_shared
                          THEN get_instance_for_path(m, path_str) ELSE None
    IN  FilePath(path_obj, relative, instance_owner, is_test_file, is_shared, is_config,
                 file_extension)

\* FilePath.from_path for a normalised project-relative path p, the owner resolver
\* reading the map m and the shared checker is_shared_path.
from_path(p, m) ==
    LET path_obj     == project_root \o <<"/">> \o p
        relative     == p
        path_str     == relative
        \* "tests/", "tests/"
        is_test_file == Contains(path_str, <<"t","e","s","t","s","/">>) \/ StartsWith(path_str, <<"t","e","s","t","s","/">>)
        is_shared    == is_shared_path(path_str)
        is_config    == _is_config_file(path_str)
        file_extension == PathSuffix(path_obj)
        instance_owner == IF ~is_shared /\ ~is_config
                          THEN get_instance_for_path(m, path_str) ELSE None
    IN  FilePath(path_obj, relative, instance_owner, is_test_file, is_shared, is_config,
                 file_extension)

----------------------------------------------------------------------------
(* scripts/patterns/specifications.py, scripts/patterns/boundary_specifications.py *)

\* OwnedByInstance comparing against one fixed instance
OwnedByInstance_Fixed(instance_id) == [kind |-> "OwnedByInstance", instance_id |-> "instance1"]

OwnedByInstance(instance_id) == [kind |-> "OwnedByInstance", instance_id |-> instance_id]
InSharedPath   == [kind |-> "InSharedPath"]
IsTestFile     == [kind |-> "IsTestFile"]
IsConfigFile   == [kind |-> "IsConfigFile"]
IsCriticalFile == [kind |-> "IsCriticalFile"]

    \* ".py", ".yaml", ".yml", ".toml", ".json", ".md"
CRITICAL_EXTENSIONS == {<<".","p","y">>, <<".","y","a","m","l">>, <<".","y","m","l">>, <<".","t","o","m","l">>, <<".","j","s","o","n">>, <<".","m","d">>}

\* __invert__ returning a negation unchanged instead of wrapping it again
NotSpecification_Collapsing(s) == IF s.kind = "Not" THEN s ELSE [kind |-> "Not", spec |-> s]

\* Specification.__and__, __or__, __invert__
AndSpecification(a, b) == [kind |-> "And", specs |-> <<a, b>>]
OrSpecification(a, b)  == [kind |-> "Or", specs |-> <<a, b>>]
NotSpecification(s)    == [kind |-> "Not", spec |-> s]

\* BoundaryAllowed without the inversion of IsCriticalFile
BoundaryAllowed_NoInvert(instance_id) ==
    [kind |-> "BoundaryAllowed", instance_id |-> instance_id,
     spec |-> OrSpecification(OrSpecification(OrSpecification(OrSpecification(
                  OwnedByInstance(instance_id), InSharedPath), IsTestFile), IsConfigFile),
                  IsCriticalFile)]

\* OwnedByInstance(id) | InSharedPath() | IsTestFile() | IsConfigFile() | ~IsCriticalFile()
BoundaryAllowed(instance_id) ==
    [kind |-> "BoundaryAllowed", instance_id |-> instance_id,
     spec |-> OrSpecification(OrSpecification(OrSpecification(OrSpecification(
                  OwnedByInstance(instance_id), InSharedPath), IsTestFile), IsConfigFile),
                  NotSpecification(IsCriticalFile))]

create_boundary_rules(instance_id) == BoundaryAllowed(instance_id)

RECURSIVE is_satisfied_by(_, _)
is_satisfied_by(spec, fp) ==
    CASE spec.kind = "OwnedByInstance" -> fp.instance_owner = spec.instance_id
      [] spec.kind = "InSharedPath"    -> fp.is_shared
      [] spec.kind = "IsTestFile"      -> fp.is_test_file
      [] spec.kind = "IsConfigFile"    -> fp.is_config
      [] spec.kind = "IsCriticalFile"  -> fp.file_extension \in CRITICAL_EXTENSIONS
      [] spec.kind = "And" -> \A k \in 1..Len(spec.specs) : is_satisfied_by(spec.specs[k], fp)
      [] spec.kind = "Or"  -> \E k \in 1..Len(spec.specs) : is_satisfied_by(spec.specs[k], fp)
      [] spec.kind = "Not" -> ~is_satisfied_by(spec.spec, fp)
      [] spec.kind = "BoundaryAllowed" -> is_satisfied_by(spec.spec, fp)

----------------------------------------------------------------------------
(* scripts/patterns/ast_utils.py *)

\* The dataclass constructor.
ImportStatement(module, names, level, source_file, line_number, is_from_import) ==
    [module |-> module, names |-> names, level |-> level, source_file |-> source_file,
     line_number |-> line_number, is_from_import |-> is_from_import]

\* module.replace(".", "/")
ReplaceDots(s) == [i \in 1..Len(s) |-> IF s[i] = "." THEN "/" ELSE s[i]]

\* module_path without the trailing separator
module_path_NoTrailing(imp) ==
    IF imp.module = <<>> THEN <<>>
    ELSE ReplaceDots(imp.module)

\* ImportStatement.module_path
module_path(imp) ==
    IF imp.module = <<>> THEN <<>>
    ELSE ReplaceDots(imp.module) \o <<"/">>

----------------------------------------------------------------------------
(* scripts/check_conflicts.py *)

INSTANCE_BOUNDARIES == <<
    [instance |-> "instance1",
     \* "src/mia_rag/storage/", "src/mia_rag/pipeline/"
     owned_paths |-> <<<<"s","r","c","/","m","i","a","_","r","a","g","/","s","t","o","r","a","g","e","/">>, <<"s","r","c","/","m","i","a","_","r","a","g","/","p","i","p","e","l","i","n","e","/">>,
                       \* "tests/unit/instance1_storage/"
                       <<"t","e","s","t","s","/","u","n","i","t","/","i","n","s","t","a","n","c","e","1","_","s","t","o","r","a","g","e","/">>,
                       \* "tests/integration/storage_pipeline/"
                       <<"t","e","s","t","s","/","i","n","t","e","g","r","a","t","i","o","n","/","s","t","o","r","a","g","e","_","p","i","p","e","l","i","n","e","/">>,
                       \* "docs/instance1-storage.md"
                       <<"d","o","c","s","/","i","n","s","t","a","n","c","e","1","-","s","t","o","r","a","g","e",".","m","d">>>>,
     \* "src/mia_rag/common/", "src/mia_rag/interfaces/"
     allowed_imports |-> <<<<"s","r","c","/","m","i","a","_","r","a","g","/","c","o","m","m","o","n","/">>, <<"s","r","c","/","m","i","a","_","r","a","g","/","i","n","t","e","r","f","a","c","e","s","/">>>>],
    [instance |-> "instance2",
     \* "src/mia_rag/embeddings/", "tests/unit/instance2_embeddings/"
     owned_paths |-> <<<<"s","r","c","/","m","i","a","_","r","a","g","/","e","m","b","e","d","d","i","n","g","s","/">>, <<"t","e","s","t","s","/","u","n","i","t","/","i","n","s","t","a","n","c","e","2","_","e","m","b","e","d","d","i","n","g","s","/">>,
                       \* "tests/integration/embeddings/", "docs/instance2-embeddings.md"
                       <<"t","e","s","t","s","/","i","n","t","e","g","r","a","t","i","o","n","/","e","m","b","e","d","d","i","n","g","s","/">>, <<"d","o","c","s","/","i","n","s","t","a","n","c","e","2","-","e","m","b","e","d","d","i","n","g","s",".","m","d">>>>,
     \* "src/mia_rag/common/", "src/mia_rag/interfaces/"
     allowed_imports |-> <<<<"s","r","c","/","m","i","a","_","r","a","g","/","c","o","m","m","o","n","/">>, <<"s","r","c","/","m","i","a","_","r","a","g","/","i","n","t","e","r","f","a","c","e","s","/">>>>],
    [instance |-> "instance3",
     \* "src/mia_rag/weaviate/", "tests/unit/instance3_weaviate/"
     owned_paths |-> <<<<"s","r","c","/","m","i","a","_","r","a","g","/","w","e","a","v","i","a","t","e","/">>, <<"t","e","s","t","s","/","u","n","i","t","/","i","n","s","t","a","n","c","e","3","_","w","e","a","v","i","a","t","e","/">>,
                       \* "tests/integration/weaviate/", "docs/instance3-weaviate.md"
                       <<"t","e","s","t","s","/","i","n","t","e","g","r","a","t","i","o","n","/","w","e","a","v","i","a","t","e","/">>, <<"d","o","c","s","/","i","n","s","t","a","n","c","e","3","-","w","e","a","v","i","a","t","e",".","m","d">>>>,
     \* "src/mia_rag/common/", "src/mia_rag/interfaces/"
     allowed_imports |-> <<<<"s","r","c","/","m","i","a","_","r","a","g","/","c","o","m","m","o","n","/">>, <<"s","r","c","/","m","i","a","_","r","a","g","/","i","n","t","e","r","f","a","c","e","s","/">>>>],
    [instance |-> "instance4",
     \* "src/mia_rag/api/", "tests/unit/instance4_api/"
     owned_paths |-> <<<<"s","r","c","/","m","i","a","_","r","a","g","/","a","p","i","/">>, <<"t","e","s","t","s","/","u","n","i","t","/","i","n","s","t","a","n","c","e","4","_","a","p","i","/">>,
                       \* "tests/integration/api/", "docs/instance4-api.md"
                       <<"t","e","s","t","s","/","i","n","t","e","g","r","a","t","i","o","n","/","a","p","i","/">>, <<"d","o","c","s","/","i","n","s","t","a","n","c","e","4","-","a","p","i",".","m","d">>>>,
     \* "src/mia_rag/common/", "src/mia_rag/interfaces/"
     allowed_imports |-> <<<<"s","r","c","/","m","i","a","_","r","a","g","/","c","o","m","m","o","n","/">>, <<"s","r","c","/","m","i","a","_","r","a","g","/","i","n","t","e","r","f","a","c","e","s","/">>,
                           \* "src/mia_rag/weaviate/"
                           <<"s","r","c","/","m","i","a","_","r","a","g","/","w","e","a","v","i","a","t","e","/">>>>],
    [instance |-> "instance5",
     \* "src/mia_rag/mcp/", "tests/unit/instance5_mcp/"
     owned_paths |-> <<<<"s","r","c","/","m","i","a","_","r","a","g","/","m","c","p","/">>, <<"t","e","s","t","s","/","u","n","i","t","/","i","n","s","t","a","n","c","e","5","_","m","c","p","/">>,
                       \* "tests/integration/mcp/", "docs/instance5-mcp.md"
                       <<"t","e","s","t","s","/","i","n","t","e","g","r","a","t","i","o","n","/","m","c","p","/">>, <<"d","o","c","s","/","i","n","s","t","a","n","c","e","5","-","m","c","p",".","m","d">>>>,
     \* "src/mia_rag/common/", "src/mia_rag/interfaces/"
     allowed_imports |-> <<<<"s","r","c","/","m","i","a","_","r","a","g","/","c","o","m","m","o","n","/">>, <<"s","r","c","/","m","i","a","_","r","a","g","/","i","n","t","e","r","f","a","c","e","s","/">>,
                           \* "src/mia_rag/weaviate/"
                           <<"s","r","c","/","m","i","a","_","r","a","g","/","w","e","a","v","i","a","t","e","/">>>>],
    [instance |-> "instance6",
     \* "src/mia_rag/monitoring/", "tests/unit/instance6_monitoring/"
     owned_paths |-> <<<<"s","r","c","/","m","i","a","_","r","a","g","/","m","o","n","i","t","o","r","i","n","g","/">>, <<"t","e","s","t","s","/","u","n","i","t","/","i","n","s","t","a","n","c","e","6","_","m","o","n","i","t","o","r","i","n","g","/">>,
                       \* "tests/integration/monitoring/", "docs/instance6-monitoring.md"
                       <<"t","e","s","t","s","/","i","n","t","e","g","r","a","t","i","o","n","/","m","o","n","i","t","o","r","i","n","g","/">>, <<"d","o","c","s","/","i","n","s","t","a","n","c","e","6","-","m","o","n","i","t","o","r","i","n","g",".","m","d">>>>,
     \* "src/mia_rag/common/", "src/mia_rag/interfaces/"
     allowed_imports |-> <<<<"s","r","c","/","m","i","a","_","r","a","g","/","c","o","m","m","o","n","/">>, <<"s","r","c","/","m","i","a","_","r","a","g","/","i","n","t","e","r","f","a","c","e","s","/">>>>] >>

SeqRange(s) == {s[k] : k \in 1..Len(s)}

\* The dataclass constructor.  all_instance_boundaries is a dict: a sequence of
\* (instance, owned paths) entries in insertion order.
ValidationContext(instance_id, owned_paths, allowed_imports, all_instance_boundaries) ==
    [instance_id |-> instance_id, owned_paths |-> owned_paths,
     allowed_imports |-> allowed_imports,
     all_instance_boundaries |-> all_instance_boundaries]

\* BoundaryChecker.check_imports, "Build validation context":
\* instance_config = INSTANCE_BOUNDARIES.get(instance, {}) and the owned paths of all.
check_imports_context(inst) ==
    LET known == {k \in 1..Len(INSTANCE_BOUNDARIES) : INSTANCE_BOUNDARIES[k].instance = inst}
        owned == IF known = {} THEN {}
                 ELSE SeqRange(INSTANCE_BOUNDARIES[SetMin(known)].owned_paths)
        allow == IF known = {} THEN {}
                 ELSE SeqRange(INSTANCE_BOUNDARIES[SetMin(known)].allowed_imports)
        all_boundaries == [k \in 1..Len(INSTANCE_BOUNDARIES) |->
                              [instance |-> INSTANCE_BOUNDARIES[k].instance,
                               owned_paths |-> INSTANCE_BOUNDARIES[k].owned_paths]]
    IN  ValidationContext(inst, owned, allow, all_boundaries)

----------------------------------------------------------------------------
(* scripts/patterns/validators.py *)

\* validate() returning None
NoViolation == [validator_name |-> "None"]

\* The dataclass constructor.  The message is the f-string
\* "Cannot import from {other_instance}'s module: {module} (line {line_number})",
\* kept as the three values interpolated into it.
ImportViolation(imp, validator_name, message, severity) ==
    [import_statement |-> imp, validator_name |-> validator_name,
     message |-> message, severity |-> severity]

\* OwnedPathValidator reporting an import that is neither owned nor allowed
OwnedPathValidator_Flagging(imp, c) ==
    \* "src"
    IF ~StartsWith(imp.module, <<"s","r","c">>) THEN NoViolation
    ELSE IF \E owned \in c.owned_paths : StartsWith(module_path(imp), owned) THEN NoViolation
    ELSE IF \E a \in c.allowed_imports : StartsWith(module_path(imp), a) THEN NoViolation
    ELSE ImportViolation(imp, "OwnedPathValidator",
                         [other_instance |-> None, module |-> imp.module,
                          line |-> imp.line_number], "warning")

\* OwnedPathValidator.validate: every path through it returns None (NoViolation)
OwnedPathValidator(imp, c) ==
    \* "src"
    IF ~StartsWith(imp.module, <<"s","r","c">>) THEN NoViolation
    ELSE IF \E owned \in c.owned_paths : StartsWith(module_path(imp), owned) THEN NoViolation
    ELSE IF \E a \in c.allowed_imports : StartsWith(module_path(imp), a) THEN NoViolation
    ELSE NoViolation

    \* "src/mia_rag/common/", "src/mia_rag/interfaces/"
shared_prefixes == <<<<"s","r","c","/","m","i","a","_","r","a","g","/","c","o","m","m","o","n","/">>, <<"s","r","c","/","m","i","a","_","r","a","g","/","i","n","t","e","r","f","a","c","e","s","/">>>>

\* SharedImportValidator.validate
SharedImportValidator(imp, c) ==
    LET is_shared == \E k \in 1..Len(shared_prefixes) :
                         StartsWith(module_path(imp), shared_prefixes[k])
    IN  IF is_shared THEN NoViolation ELSE NoViolation

\* the entries of all_instance_boundaries that make CrossInstanceValidator return
CrossHits(imp, c, skip_own) ==
    {k \in 1..Len(c.all_instance_boundaries) :
        /\ skip_own => c.all_instance_boundaries[k].instance # c.instance_id
        /\ \E j \in 1..Len(c.all_instance_boundaries[k].owned_paths) :
               StartsWith(module_path(imp),
                          c.all_instance_boundaries[k].owned_paths[j])}

\* the ImportViolation returned for the first of them, None when there is none
CrossViolation(imp, c, hits) ==
    IF hits = {} THEN NoViolation
    ELSE ImportViolation(imp, "CrossInstanceValidator",
             [other_instance |-> c.all_instance_boundaries[SetMin(hits)].instance,
              module |-> imp.module, line |-> imp.line_number],
             "error")

\* CrossInstanceValidator without "if other_instance == ctx.instance_id: continue"
CrossInstanceValidator_NoSkipOwn(imp, c) ==
    \* "src"
    IF ~StartsWith(imp.module, <<"s","r","c">>) THEN NoViolation
    ELSE CrossViolation(imp, c, CrossHits(imp, c, FALSE))

\* CrossInstanceValidator without the "only check imports from src/ paths" return
CrossInstanceValidator_NoSrcGuard(imp, c) ==
    CrossViolation(imp, c, CrossHits(imp, c, TRUE))

\* CrossInstanceValidator letting every relative import through
CrossInstanceValidator_SkipRelative(imp, c) ==
    \* "src"
    IF imp.level > 0 \/ ~StartsWith(imp.module, <<"s","r","c">>) THEN NoViolation
    ELSE CrossViolation(imp, c, CrossHits(imp, c, TRUE))

\* CrossInstanceValidator.validate: the first other instance, in dict order, one of
\* whose owned paths is a prefix of module_path
CrossInstanceValidator(imp, c) ==
    \* "src"
    IF ~StartsWith(imp.module, <<"s","r","c">>) THEN NoViolation
    ELSE CrossViolation(imp, c, CrossHits(imp, c, TRUE))

\* validate() of the validator class named kind
validate(kind, imp, c) ==
    CASE kind = "OwnedPathValidator"     -> OwnedPathValidator(imp, c)
      [] kind = "SharedImportValidator"  -> SharedImportValidator(imp, c)
      [] kind = "CrossInstanceValidator" -> CrossInstanceValidator(imp, c)

\* ImportValidator.handle on a chain given as the sequence of its validators' classes,
\* head first, each linked to the next through _next
RECURSIVE handle(_, _, _)
handle(chain, imp, c) ==
    LET violation == validate(Head(chain), imp, c)
        own  == IF violation # NoViolation THEN <<violation>> ELSE <<>>
        rest == IF Len(chain) > 1 THEN handle(Tail(chain), imp, c) ELSE <<>>
    IN  own \o rest

create_validation_chain ==
    <<"OwnedPathValidator", "SharedImportValidator", "CrossInstanceValidator">>

----------------------------------------------------------------------------
(* scripts/patterns/ast_utils.py: ImportExtractor, extract_imports *)

\* A file of the working tree as the checks see it: whether Path.exists() holds, and
\* what read_text and ast.parse make of its content.  content.kind is "valid" (the
\* text parses, content.tree holds its import nodes in source order), "syntax_error"
\* (ast.parse raises SyntaxError), "undecodable" (read_text raises UnicodeDecodeError)
\* or "none" for a file that does not exist.
File(file_path_, exists, content) ==
    [path |-> file_path_, exists |-> exists, content |-> content]

Content(kind, tree) == [kind |-> kind, tree |-> tree]

\* ast.alias; an absent asname is the empty string, which `if alias.asname` treats as
\* None
alias(name, asname) == [name |-> name, asname |-> asname]

\* ast.Import and ast.ImportFrom; an absent module (from . import x) is the empty
\* string, which `node.module or ""` makes of None
Import(names, lineno) == [type |-> "Import", names |-> names, lineno |-> lineno]
ImportFrom(module, names, level, lineno) ==
    [type |-> "ImportFrom", module |-> module, names |-> names, level |-> level,
     lineno |-> lineno]

\* any other statement node that holds statements (FunctionDef, ClassDef, If, Try,
\* ExceptHandler, With, ...): children are the statements of its body, handlers,
\* orelse and finalbody fields, in field order
Compound(type, children, lineno) == [type |-> type, children |-> children, lineno |-> lineno]

\* visit_Import making one ImportStatement of the whole statement
visit_Import_OneStatement(node, source_file) ==
    <<ImportStatement(node.names[1].name,
                      [k \in 1..Len(node.names) |->
                          IF node.names[k].asname # <<>> THEN node.names[k].asname
                          ELSE node.names[k].name],
                      0, source_file, node.lineno, FALSE)>>

\* ImportExtractor.visit_Import: one ImportStatement per alias
visit_Import(node, source_file) ==
    [k \in 1..Len(node.names) |->
        ImportStatement(node.names[k].name,
                        IF node.names[k].asname # <<>> THEN <<node.names[k].asname>>
                        ELSE <<node.names[k].name>>,
                        0, source_file, node.lineno, FALSE)]

\* visit_ImportFrom making one ImportStatement per imported name
visit_ImportFrom_PerName(node, source_file) ==
    [k \in 1..Len(node.names) |->
        ImportStatement(node.module, <<node.names[k].name>>, node.level, source_file,
                        node.lineno, TRUE)]

\* ImportExtractor.visit_ImportFrom: one ImportStatement for the node
visit_ImportFrom(node, source_file) ==
    <<ImportStatement(node.module, [k \in 1..Len(node.names) |-> node.names[k].name],
                      node.level, source_file, node.lineno, TRUE)>>

\* a visitor that reads the statements of a block before the blocks nested in it
RECURSIVE visit_OuterFirst(_, _)
visit_OuterFirst(tree, source_file) ==
    LET own(node) == IF node.type = "Import" THEN visit_Import(node, source_file)
                     ELSE IF node.type = "ImportFrom"
                     THEN visit_ImportFrom(node, source_file)
                     ELSE <<>>
        nested(node) == IF node.type \in {"Import", "ImportFrom"} THEN <<>>
                        ELSE visit_OuterFirst(node.children, source_file)
        RECURSIVE owns(_)
        owns(t) == IF t = <<>> THEN <<>> ELSE own(Head(t)) \o owns(Tail(t))
        RECURSIVE nesteds(_)
        nesteds(t) == IF t = <<>> THEN <<>> ELSE nested(Head(t)) \o nesteds(Tail(t))
    IN  owns(tree) \o nesteds(tree)

\* ImportExtractor.visit on the statements of a block, in order: visit_Import and
\* visit_ImportFrom append to self.imports, every other node is walked by
\* generic_visit, which visits its child statements in field order
RECURSIVE visit(_, _)
visit(tree, source_file) ==
    IF tree = <<>> THEN <<>>
    ELSE (IF Head(tree).type = "Import" THEN visit_Import(Head(tree), source_file)
          ELSE IF Head(tree).type = "ImportFrom"
          THEN visit_ImportFrom(Head(tree), source_file)
          ELSE visit(Head(tree).children, source_file))
         \o visit(Tail(tree), source_file)

\* How a call ends: by returning a value or by raising an exception
Return(value) == [raised |-> None, returned |-> TRUE, value |-> value]
Raise(exception) == [raised |-> exception, returned |-> FALSE, value |-> <<>>]

\* extract_imports testing the suffix before the existence of the file
extract_imports_SuffixFirst(f) ==
    \* ".py"
    IF PathSuffix(f.path) # <<".","p","y">> THEN Return(<<>>)
    ELSE IF ~f.exists THEN Raise("FileNotFoundError")
    ELSE IF f.content.kind = "undecodable" THEN Raise("UnicodeDecodeError")
    ELSE IF f.content.kind = "syntax_error" THEN Raise("SyntaxError")
    ELSE Return(visit(f.content.tree, f.path))

\* extract_imports reading and parsing files of any suffix
extract_imports_AnySuffix(f) ==
    IF ~f.exists THEN Raise("FileNotFoundError")
    ELSE IF f.content.kind = "undecodable" THEN Raise("UnicodeDecodeError")
    ELSE IF f.content.kind = "syntax_error" THEN Raise("SyntaxError")
    ELSE Return(visit(f.content.tree, f.path))

\* extract_imports(file_path): exists() is tested first, then the suffix; read_text
\* and ast.parse run inside the try, which re-raises SyntaxError and lets any other
\* exception through.
extract_imports(f) ==
    IF ~f.exists THEN Raise("FileNotFoundError")
    \* ".py"
    ELSE IF PathSuffix(f.path) # <<".","p","y">> THEN Return(<<>>)
    ELSE IF f.content.kind = "undecodable" THEN Raise("UnicodeDecodeError")
    ELSE IF f.content.kind = "syntax_error" THEN Raise("SyntaxError")
    ELSE Return(visit(f.content.tree, f.path))

----------------------------------------------------------------------------
(* scripts/check_conflicts.py: BoundaryChecker *)

\* The dataclass constructor.  The message is kept as the values interpolated into
\* the f-string, in a record.
BoundaryViolation(inst, file_str, violation_type, severity, message) ==
    [instance |-> inst, file_path |-> file_str, violation_type |-> violation_type,
     severity |-> severity, message |-> message]

\* check_file_ownership returning None
NoBoundaryViolation == [violation_type |-> "None"]

    \* "src/mia_rag/common/", "src/mia_rag/interfaces/", "tests/contracts/"
COMMON_PATHS == <<<<"s","r","c","/","m","i","a","_","r","a","g","/","c","o","m","m","o","n","/">>, <<"s","r","c","/","m","i","a","_","r","a","g","/","i","n","t","e","r","f","a","c","e","s","/">>, <<"t","e","s","t","s","/","c","o","n","t","r","a","c","t","s","/">>,
                  \* "docs/architecture/", "docs/interfaces/", ".github/", "scripts/"
                  <<"d","o","c","s","/","a","r","c","h","i","t","e","c","t","u","r","e","/">>, <<"d","o","c","s","/","i","n","t","e","r","f","a","c","e","s","/">>, <<".","g","i","t","h","u","b","/">>, <<"s","c","r","i","p","t","s","/">>,
                  \* "pyproject.toml", ".mise.toml", "README.md"
                  <<"p","y","p","r","o","j","e","c","t",".","t","o","m","l">>, <<".","m","i","s","e",".","t","o","m","l">>, <<"R","E","A","D","M","E",".","m","d">>,
                  \* "INSTANCE-BOUNDARIES.md", "AI-AGENT-INSTRUCTIONS.md"
                  <<"I","N","S","T","A","N","C","E","-","B","O","U","N","D","A","R","I","E","S",".","m","d">>, <<"A","I","-","A","G","E","N","T","-","I","N","S","T","R","U","C","T","I","O","N","S",".","m","d">>>>

\* INSTANCE_BOUNDARIES.get(instance, {}).get("owned_paths", [])
owned_paths_of(inst) ==
    LET known == {k \in 1..Len(INSTANCE_BOUNDARIES) : INSTANCE_BOUNDARIES[k].instance = inst}
    IN  IF known = {} THEN <<>> ELSE INSTANCE_BOUNDARIES[SetMin(known)].owned_paths

\* check_file_ownership without the loop over the instance's owned paths
check_file_ownership_NoOwnedLoop(file_str, inst) ==
    LET others == {k \in 1..Len(INSTANCE_BOUNDARIES) :
                      /\ INSTANCE_BOUNDARIES[k].instance # inst
                      /\ \E j \in 1..Len(INSTANCE_BOUNDARIES[k].owned_paths) :
                             StartsWith(file_str, INSTANCE_BOUNDARIES[k].owned_paths[j])}
    IN  IF \E k \in 1..Len(COMMON_PATHS) : StartsWith(file_str, COMMON_PATHS[k])
        THEN NoBoundaryViolation
        ELSE IF others # {}
        THEN BoundaryViolation(inst, file_str, "ownership", "error",
                 [text |-> "cannot modify (owned by)",
                  other_instance |-> INSTANCE_BOUNDARIES[SetMin(others)].instance])
        ELSE BoundaryViolation(inst, file_str, "undefined", "warning",
                 [text |-> "is not in any defined boundary"])

\* BoundaryChecker.check_file_ownership(file_path, instance) on file_str = str(file_path)
check_file_ownership(file_str, inst) ==
    LET owned_paths == owned_paths_of(inst)
        others == {k \in 1..Len(INSTANCE_BOUNDARIES) :
                      /\ INSTANCE_BOUNDARIES[k].instance # inst
                      /\ \E j \in 1..Len(INSTANCE_BOUNDARIES[k].owned_paths) :
                             StartsWith(file_str, INSTANCE_BOUNDARIES[k].owned_paths[j])}
    IN  IF \E k \in 1..Len(COMMON_PATHS) : StartsWith(file_str, COMMON_PATHS[k])
        THEN NoBoundaryViolation
        ELSE IF \E k \in 1..Len(owned_paths) : StartsWith(file_str, owned_paths[k])
        THEN NoBoundaryViolation
        ELSE IF others # {}
        THEN BoundaryViolation(inst, file_str, "ownership", "error",
                 [text |-> "cannot modify (owned by)",
                  other_instance |-> INSTANCE_BOUNDARIES[SetMin(others)].instance])
        ELSE BoundaryViolation(inst, file_str, "undefined", "warning",
                 [text |-> "is not in any defined boundary"])

\* "Convert ImportViolation to BoundaryViolation", for the violations of one import
convert(import_violations, file_str, inst) ==
    [k \in 1..Len(import_violations) |->
        BoundaryViolation(inst, file_str, "import", import_violations[k].severity,
                          import_violations[k].message)]

\* "for import_stmt in imports: import_violations = validator.handle(import_stmt, ctx)"
RECURSIVE validate_each(_, _, _, _)
validate_each(imports, c, file_str, inst) ==
    IF imports = <<>> THEN <<>>
    ELSE convert(handle(create_validation_chain, Head(imports), c), file_str, inst)
         \o validate_each(Tail(imports), c, file_str, inst)

\* check_imports reporting a missing Python file as a warning of its own
check_imports_MissingWarns(f, inst) ==
    \* ".py"
    IF PathSuffix(f.path) # <<".","p","y">> THEN Return(<<>>)
    ELSE IF ~f.exists
    THEN Return(<<BoundaryViolation(inst, f.path, "not_found", "warning",
                      [text |-> "File not found"])>>)
    ELSE LET outcome == extract_imports(f)
         IN  IF outcome.raised = None
             THEN Return(validate_each(outcome.value, check_imports_context(inst),
                                       f.path, inst))
             ELSE IF outcome.raised = "SyntaxError"
             THEN Return(<<BoundaryViolation(inst, f.path, "parse_error", "warning",
                               [text |-> "Syntax error in file"])>>)
             ELSE Return(<<BoundaryViolation(inst, f.path, "parse_error", "warning",
                               [text |-> "Could not parse file"])>>)

\* check_imports letting the extractor's exceptions through
check_imports_NoExcept(f, inst) ==
    \* ".py"
    IF PathSuffix(f.path) # <<".","p","y">> THEN Return(<<>>)
    ELSE IF ~f.exists THEN Return(<<>>)
    ELSE LET outcome == extract_imports(f)
         IN  IF outcome.raised = None
             THEN Return(validate_each(outcome.value, check_imports_context(inst),
                                       f.path, inst))
             ELSE Raise(outcome.raised)

\* BoundaryChecker.check_imports(file_path, instance): non-Python and missing files
\* are skipped; SyntaxError and any other Exception of the try block become one
\* parse_error warning.
check_imports(f, inst) ==
    \* ".py"
    IF PathSuffix(f.path) # <<".","p","y">> THEN Return(<<>>)
    ELSE IF ~f.exists THEN Return(<<>>)
    ELSE LET outcome == extract_imports(f)
         IN  IF outcome.raised = None
             THEN Return(validate_each(outcome.value, check_imports_context(inst),
                                       f.path, inst))
             ELSE IF outcome.raised = "SyntaxError"
             THEN Return(<<BoundaryViolation(inst, f.path, "parse_error", "warning",
                               [text |-> "Syntax error in file"])>>)
             ELSE Return(<<BoundaryViolation(inst, f.path, "parse_error", "warning",
                               [text |-> "Could not parse file"])>>)

\* The characters of the modelled paths in code point order; ord(c) is the rank of c
\* in it, which orders characters as their code points do.
Ascii == <<"-", ".", "/", "0", "1", "2", "3", "4", "5", "6", "7", "8", "9",
           "A", "B", "C", "D", "E", "F", "G", "H", "I", "J", "K", "L", "M",
           "N", "O", "P", "Q", "R", "S",
           "T", "U", "V", "W", "X", "Y", "Z", "_",
           "a", "b", "c", "d", "e", "f", "g", "h", "i", "j", "k", "l", "m",
           "n", "o", "p", "q", "r", "s", "t", "u", "v", "w", "x", "y", "z">>

ord(c) == CHOOSE i \in 1..Len(Ascii) : Ascii[i] = c

\* str.__lt__
StrLess(a, b) ==
    \E i \in 1..(Len(a) + 1) :
        /\ i <= Len(b)
        /\ \A j \in 1..(i - 1) : a[j] = b[j]
        /\ (i = Len(a) + 1 \/ ord(a[i]) < ord(b[i]))

\* a sort key holding the severity alone
KeyLess_SeverityOnly(v, w) == v.severity = "error" /\ w.severity # "error"

\* a sort key holding the file path alone
KeyLess_PathOnly(v, w) == StrLess(v.file_path, w.file_path)

\* key=lambda v: (v.severity != "error", v.file_path), compared as tuples
KeyLess(v, w) ==
    \/ v.severity = "error" /\ w.severity # "error"
    \/ /\ (v.severity = "error") = (w.severity = "error")
       /\ StrLess(v.file_path, w.file_path)

\* list.sort is stable: an element goes before the already sorted later elements
\* whose key is not less than its own
RECURSIVE sort(_)
sort(vs) ==
    IF vs = <<>> THEN <<>>
    ELSE LET rest == sort(Tail(vs))
             n == Cardinality({k \in 1..Len(rest) : KeyLess(rest[k], Head(vs))})
         IN  SubSeq(rest, 1, n) \o <<Head(vs)>> \o SubSeq(rest, n + 1, Len(rest))

\* main's exit status failing on errors only, strict or not
conflicts_exit_status_NoStrict(success, strict, violation_list) ==
    IF ~success THEN 1 ELSE 0

\* check_conflicts.main, "Return exit code"
conflicts_exit_status(success, strict, violation_list) ==
    IF ~success \/ (strict /\ violation_list # <<>>) THEN 1 ELSE 0

----------------------------------------------------------------------------
(* scripts/check_boundaries.py *)

\* check_file_boundaries without the shared-path test of an allowed file
check_file_boundaries_SharedOk(file_path_str, instance_id) ==
    LET fp == from_path(file_path_str, INSTANCE_DIRECTORIES)
        boundary_spec == create_boundary_rules(instance_id)
    IN  IF is_satisfied_by(boundary_spec, fp)
        THEN [result |-> "OK", reason |-> [text |-> "reason()"]]
        ELSE [result |-> "VIOLATION",
              reason |-> [text |-> "Owned by", owner |-> fp.instance_owner]]

\* check_file_boundaries(file_path_str, instance_id): the CheckResult and, for a
\* violation, the owner named in the reason
check_file_boundaries(file_path_str, instance_id) ==
    LET fp == from_path(file_path_str, INSTANCE_DIRECTORIES)
        boundary_spec == create_boundary_rules(instance_id)
    IN  IF is_satisfied_by(boundary_spec, fp)
        THEN IF is_satisfied_by(InSharedPath, fp)
             THEN [result |-> "WARNING", reason |-> [text |-> "Shared resource"]]
             ELSE [result |-> "OK", reason |-> [text |-> "reason()"]]
        ELSE [result |-> "VIOLATION",
              reason |-> [text |-> "Owned by", owner |-> fp.instance_owner]]

\* check_boundaries.main, "Handle violations": sys.exit(1), or the return that ends
\* the process with status 0
boundaries_exit_status(results, strict) ==
    IF results.violations # <<>> /\ strict THEN 1 ELSE 0

\* _handle_no_instance(strict)
_handle_no_instance(strict) == IF strict THEN 1 ELSE 0

----------------------------------------------------------------------------
(* scripts/patterns/commands.py, scripts/patterns/instance_commands.py *)

\* CommandResult.ok(message, data={"valid": True}) and CommandResult.error(message,
\* exit_code); the message is the list of output lines
CommandResult_ok == [success |-> TRUE, exit_code |-> 0, valid |-> TRUE]
CommandResult_error(exit_code) == [success |-> FALSE, exit_code |-> exit_code, valid |-> FALSE]

\* a line of output_lines: what it reports, and the name or directory it is about
Line(mark, text) == [mark |-> mark, text |-> text]

\* Path(directory).exists(): pathlib drops a trailing separator before the lookup
PathExists(directory, disk) ==
    (IF directory # <<>> /\ directory[Len(directory)] = "/"
     THEN SubSeq(directory, 1, Len(directory) - 1) ELSE directory) \in disk

\* the inner loop body of execute() failing on a directory that does not exist
check_directory_MissingFails(all_valid, all_paths, output_lines, directory, disk) ==
    IF directory \in all_paths
    THEN [all_valid |-> FALSE, all_paths |-> all_paths,
          output_lines |-> Append(output_lines, Line("DUPLICATE OWNERSHIP", directory))]
    ELSE [all_valid |-> all_valid /\ PathExists(directory, disk),
          all_paths |-> all_paths \cup {directory},
          output_lines |-> Append(output_lines,
                                  IF PathExists(directory, disk) THEN Line("ok", directory)
                                  ELSE Line("does not exist yet", directory))]

\* ValidateMappingsCommand.execute, body of "for directory in instance.directories"
check_directory(all_valid, all_paths, output_lines, directory, disk) ==
    IF directory \in all_paths
    THEN [all_valid |-> FALSE, all_paths |-> all_paths,
          output_lines |-> Append(output_lines, Line("DUPLICATE OWNERSHIP", directory))]
    ELSE [all_valid |-> all_valid,
          all_paths |-> all_paths \cup {directory},
          output_lines |-> Append(output_lines,
                                  IF PathExists(directory, disk) THEN Line("ok", directory)
                                  ELSE Line("does not exist yet", directory))]

----------------------------------------------------------------------------
(* Inputs of the boundary side *)

MaxStem == 2

SeqsUpTo(S, n) == UNION {[1..k -> S] : k \in 0..n}

\* A path as pathlib leaves it: relative, no empty, "." or ".." component.
Normalized(p) ==
    /\ p # <<>>
    /\ p[1] # "/"
    /\ p[Len(p)] # "/"
    /\ \A i \in 1..(Len(p) - 1) : ~(p[i] = "/" /\ p[i + 1] = "/")
    /\ \A i \in 1..Len(p) :
           ~(/\ p[i] = "."
             /\ (i = 1 \/ p[i - 1] = "/")
             /\ (i = Len(p) \/ p[i + 1] = "/"))
    /\ \A i \in 1..(Len(p) - 1) :
           ~(/\ p[i] = "." /\ p[i + 1] = "."
             /\ (i = 1 \/ p[i - 1] = "/")
             /\ (i + 1 = Len(p) \/ p[i + 2] = "/"))

    \* "src/mia_rag/storage/", "src/mia_rag/storage"
PathPrefixes == {<<>>, <<"s","r","c","/","m","i","a","_","r","a","g","/","s","t","o","r","a","g","e","/">>, <<"s","r","c","/","m","i","a","_","r","a","g","/","s","t","o","r","a","g","e">>,
                 \* "src/mia_rag/storage/README"
                 <<"s","r","c","/","m","i","a","_","r","a","g","/","s","t","o","r","a","g","e","/","R","E","A","D","M","E">>,
                 \* "src/mia_rag/embeddings/", "src/mia_rag/embeddings/image"
                 <<"s","r","c","/","m","i","a","_","r","a","g","/","e","m","b","e","d","d","i","n","g","s","/">>, <<"s","r","c","/","m","i","a","_","r","a","g","/","e","m","b","e","d","d","i","n","g","s","/","i","m","a","g","e">>,
                 \* "src/mia_rag/interfaces/", "src/", "src/contests/"
                 <<"s","r","c","/","m","i","a","_","r","a","g","/","i","n","t","e","r","f","a","c","e","s","/">>, <<"s","r","c","/">>, <<"s","r","c","/","c","o","n","t","e","s","t","s","/">>,
                 \* "docs/", "docs", "docs/README", "scripts/", ".github/"
                 <<"d","o","c","s","/">>, <<"d","o","c","s">>, <<"d","o","c","s","/","R","E","A","D","M","E">>, <<"s","c","r","i","p","t","s","/">>, <<".","g","i","t","h","u","b","/">>,
                 \* "tests/", "tests/unit/instance2_embeddings/"
                 <<"t","e","s","t","s","/">>, <<"t","e","s","t","s","/","u","n","i","t","/","i","n","s","t","a","n","c","e","2","_","e","m","b","e","d","d","i","n","g","s","/">>,
                 \* "README", "pyproject", "image", ".gitignore", "LICENSE"
                 <<"R","E","A","D","M","E">>, <<"p","y","p","r","o","j","e","c","t">>, <<"i","m","a","g","e">>, <<".","g","i","t","i","g","n","o","r","e">>, <<"L","I","C","E","N","S","E">>}

StemChars == {"a", "/", "."}

    \* ".py", ".yaml", ".yml", ".toml", ".json", ".md", ".png"
Extensions == {<<>>, <<".","p","y">>, <<".","y","a","m","l">>, <<".","y","m","l">>, <<".","t","o","m","l">>, <<".","j","s","o","n">>, <<".","m","d">>, <<".","p","n","g">>,
               \* ".txt"
               <<".","t","x","t">>}

Paths == {p \in {pre \o stem \o ext : pre \in PathPrefixes,
                                      stem \in SeqsUpTo(StemChars, MaxStem),
                                      ext \in Extensions} : Normalized(p)}

\* An ownership map in which owned directories lie inside shared and config territory,
\* and inside one another: the directory of instance2 contains those of instance1
\* (declared before it) and of instance3 (declared after it).
OVERLAP_DIRECTORIES == <<
    \* "src/mia_rag/storage", "docs"
    [instance_id |-> "instance1", directories |-> <<<<"s","r","c","/","m","i","a","_","r","a","g","/","s","t","o","r","a","g","e">>, <<"d","o","c","s">>,
                                                    \* ".github/"
                                                    <<".","g","i","t","h","u","b","/">>>>],
    \* "src/mia_rag", "scripts"
    [instance_id |-> "instance2", directories |-> <<<<"s","r","c","/","m","i","a","_","r","a","g">>, <<"s","c","r","i","p","t","s">>>>],
    \* "src/mia_rag/embeddings/"
    [instance_id |-> "instance3", directories |-> <<<<"s","r","c","/","m","i","a","_","r","a","g","/","e","m","b","e","d","d","i","n","g","s","/">>>>] >>

OwnershipMaps == {INSTANCE_DIRECTORIES, OVERLAP_DIRECTORIES}

ActingInstances == Instances \cup {"instance9"}

\* the paths for which FilePath values are also built field by field
    \* "image.png", "src/mia_rag/storage/a.py"
ConstructorPaths == {<<"i","m","a","g","e",".","p","n","g">>, <<"s","r","c","/","m","i","a","_","r","a","g","/","s","t","o","r","a","g","e","/","a",".","p","y">>}

NoFilePath == FilePath(<<>>, <<>>, None, FALSE, FALSE, FALSE, <<>>)

BoundaryIdle ==
    /\ path = <<>> /\ instance = "instance1" /\ dirs = <<>> /\ origin = "none"
    /\ file_path = NoFilePath /\ checked = FALSE /\ allowed = FALSE

ImportIdle ==
    /\ import_stmt = ImportStatement(<<>>, <<>>, 0, <<>>, 1, FALSE)
    /\ ctx = ValidationContext("instance1", {}, {}, <<>>)
    /\ op = "none" /\ result = NoViolation /\ violations = <<>>

HandleIdle ==
    /\ h_chain = <<>> /\ h_pc = "done" /\ h_frames = <<>> /\ h_calls = <<>>
    /\ h_result = <<>>

MaxInverts == 3

AlgebraIdle ==
    /\ s_spec = InSharedPath /\ s_inverts = 0 /\ s_candidate = NoFilePath
    /\ s_evaluated = {} /\ s_verdict = [n \in 0..MaxInverts |-> FALSE]

NoResults == [violations |-> <<>>, warnings |-> <<>>, ok_files |-> <<>>]

ExtractIdle ==
    /\ e_file = File(<<>>, FALSE, Content("none", <<>>)) /\ e_pc = "done"
    /\ e_outcome = Return(<<>>)

\* CommandResult before execute() has returned
NoResult == [success |-> FALSE, exit_code |-> 0, valid |-> FALSE]

ValidateIdle ==
    /\ v_instances = <<>> /\ v_disk = {} /\ v_pc = "done" /\ v_i = 0 /\ v_j = 0
    /\ v_all_valid = TRUE /\ v_all_paths = {} /\ v_output_lines = <<>>
    /\ v_result = NoResult

OwnershipIdle ==
    /\ o_path = <<>> /\ o_instance = "instance1" /\ o_pc = "done"
    /\ o_verdict = NoBoundaryViolation

BatchIdle ==
    /\ b_entry = "check_conflicts" /\ b_instance = None /\ b_strict = FALSE
    /\ b_files = <<>> /\ b_pc = "exited" /\ b_index = 0 /\ b_violations = <<>>
    /\ b_results = NoResults /\ b_success = FALSE /\ b_exit = 0

----------------------------------------------------------------------------
(* The boundary side: resolve a path, evaluate the boundary rules *)

InitBoundary ==
    /\ path \in Paths
    /\ instance \in ActingInstances
    /\ dirs \in OwnershipMaps
    /\ origin = "none"
    /\ file_path = NoFilePath
    /\ checked = FALSE
    /\ allowed = FALSE
    /\ ImportIdle
    /\ HandleIdle
    /\ AlgebraIdle
    /\ ExtractIdle
    /\ BatchIdle
    /\ ValidateIdle
    /\ OwnershipIdle

\* FilePath.from_path(path, project_root, owner_resolver, shared_checker)
Resolve ==
    /\ origin = "none"
    /\ file_path' = from_path(path, dirs)
    /\ origin' = "from_path"
    /\ UNCHANGED <<path, instance, dirs, checked, allowed, importVars, handleVars, algebraVars,
                   extractVars, batchVars, validateVars, ownershipVars>>

\* FilePath(...) built directly, any field values
Construct ==
    /\ origin = "none"
    /\ path \in ConstructorPaths
    /\ \E owner \in Instances \cup {None}, test \in BOOLEAN, shared \in BOOLEAN,
          config \in BOOLEAN, ext \in Extensions :
           file_path' = FilePath(project_root \o <<"/">> \o path, path, owner, test, shared,
                                 config, ext)
    /\ origin' = "constructor"
    /\ UNCHANGED <<path, instance, dirs, checked, allowed, importVars, handleVars, algebraVars,
                   extractVars, batchVars, validateVars, ownershipVars>>

\* create_boundary_rules(instance).is_satisfied_by(file_path)
Evaluate ==
    /\ origin # "none"
    /\ ~checked
    /\ allowed' = is_satisfied_by(create_boundary_rules(instance), file_path)
    /\ checked' = TRUE
    /\ UNCHANGED <<path, instance, dirs, origin, file_path, importVars, handleVars, algebraVars,
                   extractVars, batchVars, validateVars, ownershipVars>>

NextBoundary == Resolve \/ Construct \/ Evaluate

Spec == InitBoundary /\ [][NextBoundary]_vars

----------------------------------------------------------------------------
(* Claims about the boundary side *)

\* the critical set as the documentation lists it
    \* ".py", ".yaml", ".yml", ".toml", ".json", ".md"
DocumentedCriticalSet == {<<".","p","y">>, <<".","y","a","m","l">>, <<".","y","m","l">>, <<".","t","o","m","l">>, <<".","j","s","o","n">>, <<".","m","d">>}

\* C1: for every FilePath p and instance i, BoundaryAllowed(i).is_satisfied_by(p) is
\* true exactly when p is owned by i, or shared, or a test file, or config, or its
\* extension is outside the critical set; and a file named image.png is allowed for
\* any instance under any directory.
C1_AllowedExactlyWhen ==
    checked =>
        /\ allowed <=> \/ file_path.instance_owner = instance
                       \/ file_path.is_shared
                       \/ file_path.is_test_file
                       \/ file_path.is_config
                       \/ file_path.file_extension \notin DocumentedCriticalSet
        \* "image.png"
        /\ (origin = "from_path" /\ PathName(path) = <<"i","m","a","g","e",".","p","n","g">>) => allowed

\* C1 witness: a resolved critical file owned by another instance is refused.
C1_Witness ==
    /\ checked /\ origin = "from_path" /\ ~allowed
    /\ file_path.instance_owner \notin {None, instance}
    \* ".py"
    /\ file_path.file_extension = <<".","p","y">>

\* C2: a FilePath owned by the acting instance is allowed, and a shared FilePath is
\* allowed for every instance.
C2_OwnedOrSharedAllowed ==
    checked =>
        /\ file_path.instance_owner = instance => allowed
        /\ file_path.is_shared => allowed

\* C2 witness: a resolved critical file that is allowed only because it is owned.
C2_Witness ==
    /\ checked /\ origin = "from_path" /\ allowed
    /\ file_path.instance_owner = instance
    /\ ~file_path.is_shared /\ ~file_path.is_test_file /\ ~file_path.is_config
    /\ file_path.file_extension \in DocumentedCriticalSet

\* C9: a FilePath produced by from_path that is config or shared has no owner,
\* whatever the ownership map says.
C9_ConfigSharedUnowned ==
    origin = "from_path" =>
        (file_path.is_config \/ file_path.is_shared => file_path.instance_owner = None)

\* C9 witness: a shared path lying inside a directory the ownership map gives to an
\* instance is resolved without owner.
C9_Witness ==
    /\ origin = "from_path"
    /\ file_path.is_shared /\ ~file_path.is_config
    /\ get_instance_for_path(dirs, path) # None
    /\ file_path.instance_owner = None

\* C10 as stated: is_config and is_shared are never both true of a resolved FilePath.
C10_ConfigSharedExclusive ==
    origin = "from_path" => ~(file_path.is_config /\ file_path.is_shared)

\* C10 amended: config and shared both come before ownership, and are computed
\* independently of each other.  A resolved FilePath is in exactly one of the classes
\* config-or-shared, instance-owned, unrestricted; outside config and shared the owner
\* is the owner resolver's answer.
C10_PrecedenceClasses ==
    origin = "from_path" =>
        LET config_or_shared == file_path.is_config \/ file_path.is_shared
            owned            == file_path.instance_owner # None
            unrestricted     == ~config_or_shared /\ ~owned
        IN  /\ Cardinality({c \in {"config_or_shared", "owned", "unrestricted"} :
                               \/ c = "config_or_shared" /\ config_or_shared
                               \/ c = "owned" /\ owned
                               \/ c = "unrestricted" /\ unrestricted}) = 1
            /\ ~config_or_shared =>
                   file_path.instance_owner = get_instance_for_path(dirs, path)
            /\ file_path.is_config = _is_config_file(path)
            /\ file_path.is_shared = is_shared_path(path)

\* C10 witness: a path under .github/ resolves to both config and shared.
C10_Witness ==
    /\ origin = "from_path"
    \* ".github/"
    /\ StartsWith(path, <<".","g","i","t","h","u","b","/">>)
    /\ file_path.is_config /\ file_path.is_shared
    /\ file_path.instance_owner = None

\* C11: for a path that is neither config nor shared, the resolved instance_owner is
\* the instance of the first entry of the ownership map, in declaration order, one of
\* whose directories is a string prefix of the project-relative path; when no
\* directory of any instance is a prefix, the owner is unset.
C11_FirstMatchingOwner ==
    (origin = "from_path" /\ ~file_path.is_config /\ ~file_path.is_shared) =>
        LET rel == file_path.relative_to_project
            Matches(k) == \E j \in 1..Len(dirs[k].directories) :
                              StartsWith(rel, dirs[k].directories[j])
        IN  /\ (\A k \in 1..Len(dirs) : ~Matches(k)) => file_path.instance_owner = None
            /\ \A k \in 1..Len(dirs) :
                   (Matches(k) /\ \A e \in 1..(k - 1) : ~Matches(e)) =>
                       file_path.instance_owner = dirs[k].instance_id

\* C11 witness: a path under src/mia_rag/embeddings/ lies in the directories of
\* instance2 and of instance3, which is declared later and has the longer directory;
\* the owner is instance2.
C11_Witness ==
    /\ origin = "from_path" /\ dirs = OVERLAP_DIRECTORIES
    /\ ~file_path.is_config /\ ~file_path.is_shared
    \* "src/mia_rag/embeddings/"
    /\ StartsWith(path, <<"s","r","c","/","m","i","a","_","r","a","g","/","e","m","b","e","d","d","i","n","g","s","/">>)
    /\ file_path.instance_owner = "instance2"

\* C12: is_test_file of a resolved FilePath is true exactly when the project-relative
\* path starts with tests/ or has a directory component named exactly tests; a path
\* with only a directory whose name ends in tests (src/contests/x.py) is not a test
\* file.
C12_TestsSegmentExactly ==
    origin = "from_path" =>
        (file_path.is_test_file <=>
            \* "tests/"
            \/ StartsWith(file_path.relative_to_project, <<"t","e","s","t","s","/">>)
            \* "/tests/"
            \/ Contains(file_path.relative_to_project, <<"/","t","e","s","t","s","/">>))

----------------------------------------------------------------------------
(* Inputs of the import side *)

MaxModTail == 2
MaxLine == 2
MaxLevel == 1

\* A dotted module name: no leading, trailing or doubled dot ("" is the module of
\* "from . import x").
WellFormedModule(m) ==
    \/ m = <<>>
    \/ /\ m[1] # "." /\ m[Len(m)] # "."
       /\ \A i \in 1..(Len(m) - 1) : ~(m[i] = "." /\ m[i + 1] = ".")

    \* "src", "src.mia_rag", "src.mia_rag.storage"
ModuleHeads == {<<>>, <<"s","r","c">>, <<"s","r","c",".","m","i","a","_","r","a","g">>, <<"s","r","c",".","m","i","a","_","r","a","g",".","s","t","o","r","a","g","e">>,
                \* "src.mia_rag.weaviate", "src.mia_rag.common", "src.mia_rag.interfaces"
                <<"s","r","c",".","m","i","a","_","r","a","g",".","w","e","a","v","i","a","t","e">>, <<"s","r","c",".","m","i","a","_","r","a","g",".","c","o","m","m","o","n">>, <<"s","r","c",".","m","i","a","_","r","a","g",".","i","n","t","e","r","f","a","c","e","s">>,
                \* "src.mia_rag.embeddings", "tests.unit.instance2_embeddings"
                <<"s","r","c",".","m","i","a","_","r","a","g",".","e","m","b","e","d","d","i","n","g","s">>, <<"t","e","s","t","s",".","u","n","i","t",".","i","n","s","t","a","n","c","e","2","_","e","m","b","e","d","d","i","n","g","s">>,
                \* "requests", "src.a", "src.a.b"
                <<"r","e","q","u","e","s","t","s">>, <<"s","r","c",".","a">>, <<"s","r","c",".","a",".","b">>}

ModuleChars == {".", "x"}

Modules == {m \in {head \o tail : head \in ModuleHeads,
                                  tail \in SeqsUpTo(ModuleChars, MaxModTail)} :
               WellFormedModule(m)}

NameLists == {<<"X">>, <<"X", "Y">>}

ImportStatements ==
    \* "test.py"
    {ImportStatement(m, names, level, <<"t","e","s","t",".","p","y">>, line, from) :
        m \in Modules, names \in NameLists, level \in 0..MaxLevel, line \in 1..MaxLine,
        from \in BOOLEAN}

\* the test_context fixture
TestContext ==
    ValidationContext("instance1",
        \* "src/mia_rag/storage/", "src/mia_rag/pipeline/"
        {<<"s","r","c","/","m","i","a","_","r","a","g","/","s","t","o","r","a","g","e","/">>, <<"s","r","c","/","m","i","a","_","r","a","g","/","p","i","p","e","l","i","n","e","/">>},
        \* "src/mia_rag/common/", "src/mia_rag/interfaces/"
        {<<"s","r","c","/","m","i","a","_","r","a","g","/","c","o","m","m","o","n","/">>, <<"s","r","c","/","m","i","a","_","r","a","g","/","i","n","t","e","r","f","a","c","e","s","/">>},
        <<[instance |-> "instance1",
           \* "src/mia_rag/storage/", "src/mia_rag/pipeline/"
           owned_paths |-> <<<<"s","r","c","/","m","i","a","_","r","a","g","/","s","t","o","r","a","g","e","/">>, <<"s","r","c","/","m","i","a","_","r","a","g","/","p","i","p","e","l","i","n","e","/">>>>],
          \* "src/mia_rag/embeddings/"
          [instance |-> "instance2", owned_paths |-> <<<<"s","r","c","/","m","i","a","_","r","a","g","/","e","m","b","e","d","d","i","n","g","s","/">>>>],
          \* "src/mia_rag/weaviate/"
          [instance |-> "instance3", owned_paths |-> <<<<"s","r","c","/","m","i","a","_","r","a","g","/","w","e","a","v","i","a","t","e","/">>>>]>>)

\* An ownership map whose owned prefixes are nested in one another.
NestedBoundaries ==
    \* "src/a/b/"
    <<[instance |-> "instance1", owned_paths |-> <<<<"s","r","c","/","a","/","b","/">>>>],
      \* "src/a/"
      [instance |-> "instance2", owned_paths |-> <<<<"s","r","c","/","a","/">>>>],
      \* "src/"
      [instance |-> "instance3", owned_paths |-> <<<<"s","r","c","/">>>>]>>

NestedContext(inst) ==
    ValidationContext(inst,
        UNION {SeqRange(NestedBoundaries[k].owned_paths) :
                  k \in {j \in 1..Len(NestedBoundaries) : NestedBoundaries[j].instance = inst}},
        SeqRange(shared_prefixes), NestedBoundaries)

Contexts ==
    {check_imports_context(i) : i \in ActingInstances}
        \cup {TestContext}
        \cup {NestedContext(i) : i \in {"instance1", "instance2", "instance3"}}

----------------------------------------------------------------------------
(* The import side: one import statement, one context, one entry point *)

InitImport ==
    /\ import_stmt \in ImportStatements
    /\ ctx \in Contexts
    /\ op = "none"
    /\ result = NoViolation
    /\ violations = <<>>
    /\ BoundaryIdle
    /\ HandleIdle
    /\ AlgebraIdle
    /\ ExtractIdle
    /\ BatchIdle
    /\ ValidateIdle
    /\ OwnershipIdle

\* OwnedPathValidator().validate(import_stmt, ctx)
ValidateOwned ==
    /\ op = "none"
    /\ result' = OwnedPathValidator(import_stmt, ctx)
    /\ op' = "OwnedPathValidator"
    /\ UNCHANGED <<import_stmt, ctx, violations, boundaryVars, handleVars, algebraVars,
                   extractVars, batchVars, validateVars, ownershipVars>>

\* SharedImportValidator().validate(import_stmt, ctx)
ValidateShared ==
    /\ op = "none"
    /\ result' = SharedImportValidator(import_stmt, ctx)
    /\ op' = "SharedImportValidator"
    /\ UNCHANGED <<import_stmt, ctx, violations, boundaryVars, handleVars, algebraVars,
                   extractVars, batchVars, validateVars, ownershipVars>>

\* CrossInstanceValidator().validate(import_stmt, ctx)
ValidateCross ==
    /\ op = "none"
    /\ result' = CrossInstanceValidator(import_stmt, ctx)
    /\ op' = "CrossInstanceValidator"
    /\ UNCHANGED <<import_stmt, ctx, violations, boundaryVars, handleVars, algebraVars,
                   extractVars, batchVars, validateVars, ownershipVars>>

\* create_validation_chain().handle(import_stmt, ctx)
HandleDefaultChain ==
    /\ op = "none"
    /\ violations' = handle(create_validation_chain, import_stmt, ctx)
    /\ op' = "handle"
    /\ UNCHANGED <<import_stmt, ctx, result, boundaryVars, handleVars, algebraVars,
                   extractVars, batchVars, validateVars, ownershipVars>>

NextImport == ValidateOwned \/ ValidateShared \/ ValidateCross \/ HandleDefaultChain

SpecImport == InitImport /\ [][NextImport]_vars

----------------------------------------------------------------------------
(* Claims about the validators and the default chain *)

\* the instances other than the acting one that own a prefix of the import's path
OtherOwners ==
    {ctx.all_instance_boundaries[k].instance : k \in
        {j \in 1..Len(ctx.all_instance_boundaries) :
            /\ ctx.all_instance_boundaries[j].instance # ctx.instance_id
            /\ \E o \in SeqRange(ctx.all_instance_boundaries[j].owned_paths) :
                   StartsWith(module_path(import_stmt), o)}}

\* the import's module begins with the project root prefix
    \* "src"
InternalImport == StartsWith(import_stmt.module, <<"s","r","c">>)

\* C3: CrossInstanceValidator.validate returns a violation exactly when the module
\* begins with "src" and some instance other than ctx.instance_id owns a prefix of
\* module_path; the violation is an error whose message names such an instance, the
\* module and the line; the acting instance's own prefixes never cause one.
C3_CrossInstanceExactly ==
    op = "CrossInstanceValidator" =>
        /\ result # NoViolation <=> (InternalImport /\ OtherOwners # {})
        /\ result # NoViolation =>
               /\ result.severity = "error"
               /\ result.validator_name = "CrossInstanceValidator"
               /\ result.message.other_instance \in OtherOwners
               /\ result.message.module = import_stmt.module
               /\ result.message.line = import_stmt.line_number
               /\ result.import_statement = import_stmt

\* C3 witness: instance1 imports from instance2's prefix on line 2 and the violation
\* names instance2.
C3_Witness ==
    /\ op = "CrossInstanceValidator"
    /\ result # NoViolation
    /\ ctx = TestContext
    \* "src.mia_rag.embeddings.x"
    /\ import_stmt.module = <<"s","r","c",".","m","i","a","_","r","a","g",".","e","m","b","e","d","d","i","n","g","s",".","x">>
    /\ import_stmt.line_number = 2
    /\ result.message.other_instance = "instance2"

\* C4: an import whose module_path starts with a member of ctx.allowed_imports
\* passes the default chain with zero violations, for every instance configuration.
C4_AllowedImportPasses ==
    (/\ op = "handle"
     /\ ctx \in {check_imports_context(i) : i \in Instances}
     /\ \E a \in ctx.allowed_imports : StartsWith(module_path(import_stmt), a))
        => violations = <<>>

\* C5: an import whose module_path starts with one of the acting instance's own
\* owned prefixes gets no violation from the default chain, nor from
\* CrossInstanceValidator alone, for every ownership map.
C5_OwnedImportPasses ==
    (\E o \in ctx.owned_paths : StartsWith(module_path(import_stmt), o)) =>
        /\ op = "handle" => violations = <<>>
        /\ op = "CrossInstanceValidator" => result = NoViolation

\* C6 as stated: the default chain returns exactly one violation if the import
\* targets another instance's owned prefix and none otherwise.
C6_OneViolationIfTargetsOther ==
    op = "handle" => Len(violations) = (IF OtherOwners # {} THEN 1 ELSE 0)

\* C6 amended: the default chain returns exactly one violation if the import's module
\* begins with "src" and targets another instance's owned prefix, and none otherwise;
\* OwnedPathValidator and SharedImportValidator return no violation for any input;
\* the one violation is CrossInstanceValidator's error carrying the import's line.
C6_OneViolationIfInternalTargetsOther ==
    /\ op = "handle" =>
           /\ Len(violations) = (IF InternalImport /\ OtherOwners # {} THEN 1 ELSE 0)
           /\ \A k \in 1..Len(violations) :
                  /\ violations[k].severity = "error"
                  /\ violations[k].validator_name = "CrossInstanceValidator"
                  /\ violations[k].message.line = import_stmt.line_number
    /\ op \in {"OwnedPathValidator", "SharedImportValidator"} => result = NoViolation

\* C6 witness: two other instances own a prefix of the import and the chain still
\* returns a single violation.
C6_Witness ==
    /\ op = "handle"
    /\ Cardinality(OtherOwners) >= 2
    /\ Len(violations) = 1
    /\ violations[1].message.line = import_stmt.line_number

\* C8: an import whose module does not begin with "src" gets no violation from any
\* validator nor from the default chain, under every context.
C8_ExternalImportPasses ==
    ~InternalImport =>
        /\ op = "handle" => violations = <<>>
        /\ op \in {"OwnedPathValidator", "SharedImportValidator", "CrossInstanceValidator"}
               => result = NoViolation

\* C8 witness: a module outside "src" whose path lies under another instance's owned
\* prefix passes the chain.
C8_Witness ==
    /\ op = "handle"
    /\ ~InternalImport
    /\ OtherOwners # {}
    /\ violations = <<>>


\* the ImportStatements with the module and line of imp and any other fields
SameModule(imp) ==
    {ImportStatement(imp.module, names, level, source, imp.line_number, from) :
        \* "test.py", "other.py"
        names \in NameLists, level \in 0..MaxLevel, source \in {<<"t","e","s","t",".","p","y">>, <<"o","t","h","e","r",".","p","y">>},
        from \in BOOLEAN}

\* the validators of the default chain that report the import under the context
Reporting(imp, c) ==
    LET reported == handle(create_validation_chain, imp, c)
    IN  {reported[k].validator_name : k \in 1..Len(reported)}

\* C30: the result of the default chain depends only on the module of the import and
\* on the context: an ImportStatement with the same module and other names, level,
\* is_from_import flag or source file is reported by the same validators, under the
\* same severity and naming the same other instance.
C30_DependsOnModuleOnly ==
    op = "handle" =>
        \A other \in SameModule(import_stmt) :
            LET reported == handle(create_validation_chain, other, ctx)
            IN  /\ {reported[k].validator_name : k \in 1..Len(reported)}
                       = {violations[k].validator_name : k \in 1..Len(violations)}
                /\ Len(reported) = Len(violations)
                /\ \A k \in 1..Len(reported) :
                       /\ reported[k].validator_name = violations[k].validator_name
                       /\ reported[k].severity = violations[k].severity
                       /\ reported[k].message = violations[k].message

\* C30 witness: a relative from-import whose module text lies under another instance's
\* owned prefix has been reported as an absolute import would be.
C30_Witness ==
    /\ op = "handle"
    /\ import_stmt.level > 0 /\ import_stmt.is_from_import
    \* "src.mia_rag.embeddings"
    /\ import_stmt.module = <<"s","r","c",".","m","i","a","_","r","a","g",".","e","m","b","e","d","d","i","n","g","s">>
    /\ ctx = TestContext
    /\ Len(violations) = 1
    /\ violations[1].validator_name = "CrossInstanceValidator"
    \* "other.py"
    /\ Reporting(ImportStatement(import_stmt.module, <<"X", "Y">>, 0, <<"o","t","h","e","r",".","p","y">>, 1, FALSE),
                 ctx) = {"CrossInstanceValidator"}
----------------------------------------------------------------------------
(* ImportValidator.handle step by step, on any chain of validators *)

MaxChain == 3

ValidatorClasses == {"OwnedPathValidator", "SharedImportValidator", "CrossInstanceValidator"}

Chains == SeqsUpTo(ValidatorClasses, MaxChain) \ {<<>>}

    \* "src.mia_rag.storage.x", "src.mia_rag.common.x"
HandleModules == {<<"s","r","c",".","m","i","a","_","r","a","g",".","s","t","o","r","a","g","e",".","x">>, <<"s","r","c",".","m","i","a","_","r","a","g",".","c","o","m","m","o","n",".","x">>,
                  \* "src.mia_rag.embeddings.x", "src.a.b.x", "requests"
                  <<"s","r","c",".","m","i","a","_","r","a","g",".","e","m","b","e","d","d","i","n","g","s",".","x">>, <<"s","r","c",".","a",".","b",".","x">>, <<"r","e","q","u","e","s","t","s">>}

    \* "test.py"
HandleImports == {ImportStatement(m, <<"X">>, 0, <<"t","e","s","t",".","p","y">>, line, TRUE) :
                     m \in HandleModules, line \in 1..MaxLine}

HandleContexts == {TestContext, NestedContext("instance1"),
                   check_imports_context("instance4")}

InitHandle ==
    /\ h_chain \in Chains
    /\ import_stmt \in HandleImports
    /\ ctx \in HandleContexts
    /\ h_pc = "call"
    /\ h_frames = <<>>
    /\ h_calls = <<>>
    /\ h_result = <<>>
    /\ op = "none" /\ result = NoViolation /\ violations = <<>>
    /\ BoundaryIdle
    /\ AlgebraIdle
    /\ ExtractIdle
    /\ BatchIdle
    /\ ValidateIdle
    /\ OwnershipIdle

\* handle() stopping at the first violation, as a classic chain of responsibility
HandleCall_EarlyExit ==
    /\ h_pc = "call"
    /\ LET k == Len(h_frames) + 1
           violation == validate(h_chain[k], import_stmt, ctx)
       IN  /\ h_calls' = Append(h_calls, k)
           /\ h_frames' = Append(h_frames,
                                 IF violation # NoViolation THEN <<violation>> ELSE <<>>)
           /\ h_pc' = IF k < Len(h_chain) /\ violation = NoViolation
                      THEN "call" ELSE "return"
    /\ UNCHANGED <<h_chain, h_result, importVars, boundaryVars, algebraVars,
                   extractVars, batchVars, validateVars, ownershipVars>>

\* handle() is entered on the next validator of the chain: violations = [], then
\* "if violation := self.validate(...): violations.append(violation)", then
\* "if self._next:" either enters self._next.handle or falls to the return.
HandleCall ==
    /\ h_pc = "call"
    /\ LET k == Len(h_frames) + 1
           violation == validate(h_chain[k], import_stmt, ctx)
       IN  /\ h_calls' = Append(h_calls, k)
           /\ h_frames' = Append(h_frames,
                                 IF violation # NoViolation THEN <<violation>> ELSE <<>>)
           /\ h_pc' = IF k < Len(h_chain) THEN "call" ELSE "return"
    /\ UNCHANGED <<h_chain, h_result, importVars, boundaryVars, algebraVars,
                   extractVars, batchVars, validateVars, ownershipVars>>

\* "return violations" of the innermost frame: the caller extends its own list with
\* it, or, for the outermost frame, the list is handle()'s result.
HandleReturn ==
    /\ h_pc = "return"
    /\ LET d == Len(h_frames)
       IN  IF d = 1
           THEN /\ h_result' = h_frames[1]
                /\ h_frames' = <<>>
                /\ h_pc' = "done"
           ELSE /\ h_frames' = SubSeq(h_frames, 1, d - 2)
                                   \o <<h_frames[d - 1] \o h_frames[d]>>
                /\ UNCHANGED <<h_result, h_pc>>
    /\ UNCHANGED <<h_chain, h_calls, importVars, boundaryVars, algebraVars,
                   extractVars, batchVars, validateVars, ownershipVars>>

NextHandle == HandleCall \/ HandleReturn

SpecHandle == InitHandle /\ [][NextHandle]_vars

\* what the validators at positions 1..k of h_chain return, the non-empty results
\* concatenated in chain order
RECURSIVE ResultsThrough(_)
ResultsThrough(k) ==
    IF k = 0 THEN <<>>
    ELSE LET violation == validate(h_chain[k], import_stmt, ctx)
         IN  ResultsThrough(k - 1)
                 \o (IF violation # NoViolation THEN <<violation>> ELSE <<>>)

\* C7: handle() on a chain v1..vn invokes every validator exactly once, in chain
\* order, whether or not an earlier one returned a violation, and returns the
\* in-order concatenation of the non-empty results.
C7_WholeChainRuns ==
    /\ \A k \in 1..Len(h_calls) : h_calls[k] = k
    /\ (h_pc = "return" \/ (h_pc = "done" /\ h_chain # <<>>)) =>
           Len(h_calls) = Len(h_chain)
    /\ (h_pc = "done" /\ h_chain # <<>>) =>
           /\ h_result = ResultsThrough(Len(h_chain))
           /\ h_result = handle(h_chain, import_stmt, ctx)

\* C7 witness: the first validator of a three-validator chain returned a violation
\* and the third still ran and added its own.
C7_Witness ==
    /\ h_pc = "done"
    /\ Len(h_chain) = 3
    /\ h_calls = <<1, 2, 3>>
    /\ validate(h_chain[1], import_stmt, ctx) # NoViolation
    /\ Len(h_result) = 2

----------------------------------------------------------------------------
(* The specification algebra on any specification: ~ and is_satisfied_by *)

AlgebraInstances == {"instance1", "instance2"}

LeafSpecifications ==
    {OwnedByInstance(i) : i \in AlgebraInstances}
        \cup {InSharedPath, IsTestFile, IsConfigFile, IsCriticalFile}
        \cup {BoundaryAllowed(i) : i \in AlgebraInstances}

\* leaves, a & b, a | b and ~a over the leaves
Specifications ==
    LeafSpecifications
        \cup {AndSpecification(a, b) : a \in LeafSpecifications, b \in LeafSpecifications}
        \cup {OrSpecification(a, b) : a \in LeafSpecifications, b \in LeafSpecifications}
        \cup {NotSpecification(a) : a \in LeafSpecifications}

    \* "src/mia_rag/storage/a.py", "src/mia_rag/embeddings/a.py"
AlgebraPaths == {<<"s","r","c","/","m","i","a","_","r","a","g","/","s","t","o","r","a","g","e","/","a",".","p","y">>, <<"s","r","c","/","m","i","a","_","r","a","g","/","e","m","b","e","d","d","i","n","g","s","/","a",".","p","y">>,
                 \* "src/a.py", "docs/a.md", "tests/a.py", "pyproject.toml"
                 <<"s","r","c","/","a",".","p","y">>, <<"d","o","c","s","/","a",".","m","d">>, <<"t","e","s","t","s","/","a",".","p","y">>, <<"p","y","p","r","o","j","e","c","t",".","t","o","m","l">>,
                 \* "image.png"
                 <<"i","m","a","g","e",".","p","n","g">>}

Candidates == {from_path(p, INSTANCE_DIRECTORIES) : p \in AlgebraPaths}

InitAlgebra ==
    /\ s_spec \in Specifications
    /\ s_candidate \in Candidates
    /\ s_inverts = 0
    /\ s_evaluated = {}
    /\ s_verdict = [n \in 0..MaxInverts |-> FALSE]
    /\ BoundaryIdle
    /\ ImportIdle
    /\ HandleIdle
    /\ ExtractIdle
    /\ BatchIdle
    /\ ValidateIdle
    /\ OwnershipIdle

\* s_spec = ~s_spec
Invert ==
    /\ s_inverts < MaxInverts
    /\ s_spec' = NotSpecification(s_spec)
    /\ s_inverts' = s_inverts + 1
    /\ UNCHANGED <<s_candidate, s_evaluated, s_verdict, boundaryVars, importVars,
                   handleVars, extractVars, batchVars, validateVars, ownershipVars>>

\* s_spec.is_satisfied_by(s_candidate)
IsSatisfiedBy ==
    /\ s_inverts \notin s_evaluated
    /\ s_verdict' = [s_verdict EXCEPT ![s_inverts] = is_satisfied_by(s_spec, s_candidate)]
    /\ s_evaluated' = s_evaluated \cup {s_inverts}
    /\ UNCHANGED <<s_spec, s_inverts, s_candidate, boundaryVars, importVars, handleVars,
                   extractVars, batchVars, validateVars, ownershipVars>>

NextAlgebra == Invert \/ IsSatisfiedBy

SpecAlgebra == InitAlgebra /\ [][NextAlgebra]_vars

\* C14: for every specification s and candidate x, ~~s is satisfied by x exactly when
\* s is: two further inversions of any specification leave the verdict unchanged.
C14_DoubleNegation ==
    \A n \in s_evaluated :
        (n + 2) \in s_evaluated => s_verdict[n + 2] = s_verdict[n]

\* C14 witness: a composite specification satisfied by the candidate, its negation
\* refused and its double negation satisfied again.
C14_Witness ==
    /\ {0, 1, 2} \subseteq s_evaluated
    /\ s_inverts = 2 /\ s_spec.kind = "Not" /\ s_spec.spec.kind = "Not"
    /\ s_spec.spec.spec.kind = "And"
    /\ s_verdict[0] /\ ~s_verdict[1] /\ s_verdict[2]

----------------------------------------------------------------------------
(* extract_imports on any file *)

\* the statements of a few source texts as ast.parse returns them: the import
\* statements and the statements they are nested in, each with its line
Trees == {
    <<>>,
    \* "a.b.c"
    <<ImportFrom(<<"a",".","b",".","c">>, <<alias(<<"X">>, <<>>), alias(<<"Y">>, <<>>)>>, 0, 1)>>,
    <<Import(<<alias(<<"o","s">>, <<>>)>>, 1),
      Compound("FunctionDef",
          \* "pkg"
          <<ImportFrom(<<"p","k","g">>, <<alias(<<"y">>, <<>>)>>, 2, 3),
            Compound("If",
                \* "json"
                <<Import(<<alias(<<"j","s","o","n">>, <<>>)>>, 5),
                  Import(<<alias(<<"r","e">>, <<"r">>)>>, 7)>>, 4)>>, 2),
      \* "sys"
      Import(<<alias(<<"s","y","s">>, <<>>)>>, 9),
      \* "abc", "src.mia_rag.storage"
      Import(<<alias(<<"a","b","c">>, <<>>), alias(<<"s","r","c",".","m","i","a","_","r","a","g",".","s","t","o","r","a","g","e">>, <<>>)>>, 9)>>,
    <<Compound("Try",
          \* "numpy"
          <<Import(<<alias(<<"n","u","m","p","y">>, <<"n","p">>)>>, 2),
            Compound("ExceptHandler",
                \* "fallback"
                <<ImportFrom(<<>>, <<alias(<<"f","a","l","l","b","a","c","k">>, <<"n","p">>)>>, 1, 4)>>, 3)>>, 1),
      \* "src.mia_rag.common"
      ImportFrom(<<"s","r","c",".","m","i","a","_","r","a","g",".","c","o","m","m","o","n">>, <<alias(<<"*">>, <<>>)>>, 0, 5)>>,
    \* "src.mia_rag.embeddings.x"
    <<ImportFrom(<<"s","r","c",".","m","i","a","_","r","a","g",".","e","m","b","e","d","d","i","n","g","s",".","x">>, <<alias(<<"X">>, <<>>)>>, 0, 1)>>,
    \* "numpy"
    <<Import(<<alias(<<"o","s">>, <<>>), alias(<<"n","u","m","p","y">>, <<"n","p">>)>>, 1),
      \* "src.mia_rag.storage.x"
      ImportFrom(<<"s","r","c",".","m","i","a","_","r","a","g",".","s","t","o","r","a","g","e",".","x">>, <<alias(<<"X">>, <<>>), alias(<<"Y">>, <<"Z">>)>>, 0, 2)>>,
    <<ImportFrom(<<>>, <<alias(<<"x">>, <<>>)>>, 1, 1),
      \* "src.mia_rag.weaviate"
      Import(<<alias(<<"s","r","c",".","m","i","a","_","r","a","g",".","w","e","a","v","i","a","t","e">>, <<>>)>>, 2)>> }

\* what a file that exists can hold
Contents == {Content("valid", t) : t \in Trees}
                \cup {Content("syntax_error", <<>>), Content("undecodable", <<>>)}

    \* "src/mia_rag/storage/", "scripts/"
ExtractDirectories == {<<>>, <<"s","r","c","/","m","i","a","_","r","a","g","/","s","t","o","r","a","g","e","/">>, <<"s","c","r","i","p","t","s","/">>}

    \* "a.py", "a.PY", "a.pyc", "a.md", "a.py.txt", "a.txt.py", ".py"
ExtractNames == {<<"a",".","p","y">>, <<"a",".","P","Y">>, <<"a",".","p","y","c">>, <<"a",".","m","d">>, <<"a",".","p","y",".","t","x","t">>, <<"a",".","t","x","t",".","p","y">>, <<".","p","y">>,
                 <<"p","y">>, <<"a">>}

ExtractPaths == {d \o n : d \in ExtractDirectories, n \in ExtractNames}

FilesAt(paths) ==
    {File(p, FALSE, Content("none", <<>>)) : p \in paths}
        \cup {File(p, TRUE, c) : p \in paths, c \in Contents}

InitExtract ==
    /\ e_file \in FilesAt(ExtractPaths)
    /\ e_pc = "call"
    /\ e_outcome = Return(<<>>)
    /\ BoundaryIdle
    /\ ImportIdle
    /\ HandleIdle
    /\ AlgebraIdle
    /\ BatchIdle
    /\ ValidateIdle
    /\ OwnershipIdle

\* extract_imports(e_file)
ExtractImports ==
    /\ e_pc = "call"
    /\ e_outcome' = extract_imports(e_file)
    /\ e_pc' = "done"
    /\ UNCHANGED <<e_file, boundaryVars, importVars, handleVars, algebraVars, batchVars,
                   validateVars, ownershipVars>>

NextExtract == ExtractImports

SpecExtract == InitExtract /\ [][NextExtract]_vars

\* C15 as stated: for any path whose extension is not .py, extract_imports returns an
\* empty sequence and raises no error.
C15_NonSourceEmpty ==
    \* ".py"
    (e_pc = "done" /\ PathSuffix(e_file.path) # <<".","p","y">>) => e_outcome = Return(<<>>)

\* C15 amended: for any path that exists and whose extension is not .py,
\* extract_imports returns an empty sequence and raises no error, whatever the file
\* holds; for a path that does not exist it raises FileNotFoundError, whatever the
\* extension.
C15_ExistingNonSourceEmpty ==
    e_pc = "done" =>
        \* ".py"
        /\ (e_file.exists /\ PathSuffix(e_file.path) # <<".","p","y">>) => e_outcome = Return(<<>>)
        \* ".py"
        /\ (~e_file.exists /\ PathSuffix(e_file.path) # <<".","p","y">>) =>
               e_outcome = Raise("FileNotFoundError")

\* C15 witness: an existing file of another extension whose content would not parse
\* yields the empty sequence.
C15_Witness ==
    \* ".md"
    /\ e_pc = "done" /\ e_file.exists /\ PathSuffix(e_file.path) = <<".","m","d">>
    /\ e_file.content.kind = "syntax_error"
    /\ e_outcome = Return(<<>>)

\* C16: for any path that does not exist, extract_imports raises FileNotFoundError and
\* returns no sequence.
C16_MissingRaisesNotFound ==
    (e_pc = "done" /\ ~e_file.exists) =>
        /\ e_outcome.raised = "FileNotFoundError"
        /\ ~e_outcome.returned

\* C16 witness: a missing file that is not a .py file raises too.
C16_Witness ==
    \* ".py"
    /\ e_pc = "done" /\ ~e_file.exists /\ PathSuffix(e_file.path) # <<".","p","y">>
    /\ e_outcome.raised = "FileNotFoundError" /\ ~e_outcome.returned

\* the import statements of a tree, at any depth
RECURSIVE ImportNodes(_)
ImportNodes(tree) ==
    IF tree = <<>> THEN {}
    ELSE (IF Head(tree).type \in {"Import", "ImportFrom"} THEN {Head(tree)}
          ELSE ImportNodes(Head(tree).children))
         \cup ImportNodes(Tail(tree))

\* extract_imports has returned the imports of a file that parses
Extracted ==
    /\ e_pc = "done" /\ e_outcome.returned
    \* ".py"
    /\ e_file.exists /\ PathSuffix(e_file.path) = <<".","p","y">> /\ e_file.content.kind = "valid"

\* the positions of the returned sequence that come from the statement node
EntriesOf(node) ==
    {k \in 1..Len(e_outcome.value) :
        /\ e_outcome.value[k].line_number = node.lineno
        /\ e_outcome.value[k].is_from_import = (node.type = "ImportFrom")
        /\ IF node.type = "ImportFrom" THEN e_outcome.value[k].module = node.module
           ELSE \E a \in 1..Len(node.names) : e_outcome.value[k].module = node.names[a].name}

\* C24: every from-import statement of the file yields exactly one ImportStatement,
\* whose names is the ordered list of the imported names, whose is_from_import is
\* true and whose level is the count of leading dots; `from a.b.c import X, Y` yields
\* one statement with names [X, Y], level 0 and module_path a/b/c/.
C24_OneStatementPerFromImport ==
    Extracted =>
        /\ \A node \in ImportNodes(e_file.content.tree) :
               node.type = "ImportFrom" =>
                   /\ Cardinality(EntriesOf(node)) = 1
                   /\ \A k \in EntriesOf(node) :
                          /\ e_outcome.value[k].names =
                                 [a \in 1..Len(node.names) |-> node.names[a].name]
                          /\ e_outcome.value[k].level = node.level
                          /\ e_outcome.value[k].source_file = e_file.path
        /\ Cardinality({k \in 1..Len(e_outcome.value) : e_outcome.value[k].is_from_import})
               = Cardinality({node \in ImportNodes(e_file.content.tree) :
                                 node.type = "ImportFrom"})
        /\ e_file.content.tree =
                   \* "a.b.c"
                   <<ImportFrom(<<"a",".","b",".","c">>, <<alias(<<"X">>, <<>>), alias(<<"Y">>, <<>>)>>, 0, 1)>>
               => /\ e_outcome.value =
                          \* "a.b.c"
                          <<ImportStatement(<<"a",".","b",".","c">>, <<<<"X">>, <<"Y">>>>, 0, e_file.path, 1, TRUE)>>
                  \* "a/b/c/"
                  /\ module_path(e_outcome.value[1]) = <<"a","/","b","/","c","/">>

\* C24 witness: `from a.b.c import X, Y` has been extracted as one statement.
C24_Witness ==
    /\ Extracted
    /\ Len(e_outcome.value) = 1
    \* "a.b.c"
    /\ e_outcome.value[1].module = <<"a",".","b",".","c">>
    /\ e_outcome.value[1].names = <<<<"X">>, <<"Y">>>>
    /\ e_outcome.value[1].is_from_import

\* C25: every plain import statement yields one ImportStatement per imported name,
\* each with is_from_import false, level 0, the imported dotted name as module and
\* the line number of the statement.
C25_OneStatementPerImportedName ==
    Extracted =>
        /\ \A node \in ImportNodes(e_file.content.tree) :
               node.type = "Import" =>
                   /\ Cardinality(EntriesOf(node)) = Len(node.names)
                   /\ \A a \in 1..Len(node.names) :
                          \E k \in EntriesOf(node) :
                              /\ e_outcome.value[k].module = node.names[a].name
                              /\ e_outcome.value[k].level = 0
                              /\ ~e_outcome.value[k].is_from_import
                              /\ e_outcome.value[k].line_number = node.lineno
        /\ \A k \in 1..Len(e_outcome.value) :
               ~e_outcome.value[k].is_from_import =>
                   /\ e_outcome.value[k].level = 0
                   /\ \E node \in ImportNodes(e_file.content.tree) :
                          node.type = "Import" /\ k \in EntriesOf(node)

\* C25 witness: `import abc, src.mia_rag.storage` on line 9 has been extracted as two
\* statements of line 9.
C25_Witness ==
    /\ Extracted
    /\ \E k \in 1..Len(e_outcome.value), o \in 1..Len(e_outcome.value) :
           /\ k < o
           \* "abc"
           /\ e_outcome.value[k].module = <<"a","b","c">> /\ e_outcome.value[k].line_number = 9
           \* "src.mia_rag.storage"
           /\ e_outcome.value[o].module = <<"s","r","c",".","m","i","a","_","r","a","g",".","s","t","o","r","a","g","e">>
           /\ e_outcome.value[o].line_number = 9
           /\ ~e_outcome.value[k].is_from_import /\ ~e_outcome.value[o].is_from_import

\* the dotted module with every dot replaced by "/" and one "/" after it
SlashedWithTrailing(mp, module) ==
    /\ Len(mp) = Len(module) + 1
    /\ mp[Len(mp)] = "/"
    /\ \A i \in 1..Len(module) : mp[i] = IF module[i] = "." THEN "/" ELSE module[i]

C27_SourceLineOrder ==
    Extracted =>
        /\ \A k \in 1..(Len(e_outcome.value) - 1) :
               e_outcome.value[k].line_number <= e_outcome.value[k + 1].line_number
        /\ \A node \in ImportNodes(e_file.content.tree) : EntriesOf(node) # {}
        /\ \A k \in 1..Len(e_outcome.value) :
               \E node \in ImportNodes(e_file.content.tree) : k \in EntriesOf(node)

\* C27 witness: the imports nested in a function and in the if statement inside it
\* lie between the imports before and after the function.
C27_Witness ==
    /\ Extracted
    /\ Len(e_outcome.value) = 7
    /\ [k \in 1..7 |-> e_outcome.value[k].line_number] = <<1, 3, 5, 7, 9, 9, 9>>

----------------------------------------------------------------------------
(* A run of the boundary check over a batch of candidate files *)

MaxFiles == 2

BatchTrees == {<<>>,
               <<Import(<<alias(<<"o","s">>, <<>>)>>, 1),
                 \* "src.mia_rag.embeddings.x"
                 ImportFrom(<<"s","r","c",".","m","i","a","_","r","a","g",".","e","m","b","e","d","d","i","n","g","s",".","x">>, <<alias(<<"X">>, <<>>)>>, 0, 2)>>}

    \* "src/mia_rag/storage/a.py", "src/mia_rag/embeddings/a.py"
BatchPythonPaths == {<<"s","r","c","/","m","i","a","_","r","a","g","/","s","t","o","r","a","g","e","/","a",".","p","y">>, <<"s","r","c","/","m","i","a","_","r","a","g","/","e","m","b","e","d","d","i","n","g","s","/","a",".","p","y">>,
                     \* "scripts/a.py", "src/a.py"
                     <<"s","c","r","i","p","t","s","/","a",".","p","y">>, <<"s","r","c","/","a",".","p","y">>,
                     \* "tests/unit/instance2_embeddings/a.py"
                     <<"t","e","s","t","s","/","u","n","i","t","/","i","n","s","t","a","n","c","e","2","_","e","m","b","e","d","d","i","n","g","s","/","a",".","p","y">>}

    \* "src/mia_rag/embeddings/image.png"
BatchOtherPaths == {<<"s","r","c","/","m","i","a","_","r","a","g","/","e","m","b","e","d","d","i","n","g","s","/","i","m","a","g","e",".","p","n","g">>}

\* the files check_all_boundaries can be handed: Python files missing, unparsable or
\* with imports, and other files missing or present
    \* "src/mia_rag/storage/a.py", "src/mia_rag/embeddings/image.png"
MissingPaths == {<<"s","r","c","/","m","i","a","_","r","a","g","/","s","t","o","r","a","g","e","/","a",".","p","y">>, <<"s","r","c","/","m","i","a","_","r","a","g","/","e","m","b","e","d","d","i","n","g","s","/","i","m","a","g","e",".","p","n","g">>}

    \* "src/mia_rag/storage/a.py", "src/a.py"
UnparsablePaths == {<<"s","r","c","/","m","i","a","_","r","a","g","/","s","t","o","r","a","g","e","/","a",".","p","y">>, <<"s","r","c","/","a",".","p","y">>}

    \* "src/mia_rag/storage/a.py", "src/mia_rag/embeddings/a.py"
ParsedPaths == {<<"s","r","c","/","m","i","a","_","r","a","g","/","s","t","o","r","a","g","e","/","a",".","p","y">>, <<"s","r","c","/","m","i","a","_","r","a","g","/","e","m","b","e","d","d","i","n","g","s","/","a",".","p","y">>,
                \* "scripts/a.py", "src/a.py", "tests/unit/instance2_embeddings/a.py"
                <<"s","c","r","i","p","t","s","/","a",".","p","y">>, <<"s","r","c","/","a",".","p","y">>, <<"t","e","s","t","s","/","u","n","i","t","/","i","n","s","t","a","n","c","e","2","_","e","m","b","e","d","d","i","n","g","s","/","a",".","p","y">>}

BatchFiles ==
    {File(p, FALSE, Content("none", <<>>)) : p \in MissingPaths}
        \cup {File(p, TRUE, Content("syntax_error", <<>>)) : p \in UnparsablePaths}
        \cup {File(p, TRUE, Content("valid", t)) : p \in ParsedPaths, t \in BatchTrees}
        \cup {File(p, TRUE, Content("undecodable", <<>>)) : p \in BatchOtherPaths}

\* git lists every modified file once
Batches == {fs \in SeqsUpTo(BatchFiles, MaxFiles) :
               \A i \in 1..Len(fs), j \in 1..Len(fs) : i # j => fs[i].path # fs[j].path}

\* check_boundaries.main never opens a candidate file: its batches are lists of paths
PathBatches ==
    {fs \in SeqsUpTo({File(p, TRUE, Content("none", <<>>)) :
                          p \in BatchPythonPaths \cup BatchOtherPaths}, MaxFiles) :
        \A i \in 1..Len(fs), j \in 1..Len(fs) : i # j => fs[i].path # fs[j].path}

BatchInstances == {None, "instance1", "instance2"}

InitBatch ==
    /\ b_entry \in {"check_conflicts", "check_boundaries"}
    /\ b_instance \in BatchInstances
    /\ b_strict \in BOOLEAN
    /\ b_files \in IF b_entry = "check_conflicts" THEN Batches ELSE PathBatches
    /\ b_pc = "main"
    /\ b_index = 0
    /\ b_violations = <<>>
    /\ b_results = NoResults
    /\ b_success = FALSE
    /\ b_exit = 0
    /\ BoundaryIdle
    /\ ImportIdle
    /\ HandleIdle
    /\ AlgebraIdle
    /\ ExtractIdle
    /\ ValidateIdle
    /\ OwnershipIdle

otherVars == <<boundaryVars, importVars, handleVars, algebraVars, extractVars,
               validateVars, ownershipVars>>

\* check_conflicts.main calls check_all_boundaries, which returns at once without an
\* instance or without modified files, and otherwise enters its loop
CheckAllBoundaries ==
    /\ b_entry = "check_conflicts" /\ b_pc = "main"
    /\ IF b_instance = None
       THEN b_success' = FALSE /\ b_pc' = "report"
       ELSE IF b_files = <<>>
       THEN b_success' = TRUE /\ b_pc' = "report"
       ELSE b_success' = b_success /\ b_pc' = "loop"
    /\ UNCHANGED <<b_entry, b_instance, b_strict, b_files, b_index, b_violations,
                   b_results, b_exit, otherVars>>

\* one iteration of "for file_path in modified_files": check_file_ownership, then
\* check_imports; an exception leaving check_imports would leave the loop and main
CheckFile ==
    /\ b_entry = "check_conflicts" /\ b_pc = "loop"
    /\ LET f == b_files[b_index + 1]
           violation == check_file_ownership(f.path, b_instance)
           own == IF violation # NoBoundaryViolation THEN <<violation>> ELSE <<>>
           import_violations == check_imports(f, b_instance)
       IN  IF import_violations.raised # None
           THEN /\ b_violations' = b_violations \o own
                /\ b_pc' = "crashed"
                /\ b_exit' = 1
                /\ b_index' = b_index
           ELSE /\ b_violations' = b_violations \o own \o import_violations.value
                /\ b_index' = b_index + 1
                /\ b_pc' = IF b_index + 1 = Len(b_files) THEN "sort" ELSE "loop"
                /\ b_exit' = b_exit
    /\ UNCHANGED <<b_entry, b_instance, b_strict, b_files, b_results, b_success,
                   otherVars>>

\* "Sort violations by severity" and the return of check_all_boundaries
SortAndReturn ==
    /\ b_entry = "check_conflicts" /\ b_pc = "sort"
    /\ b_violations' = sort(b_violations)
    /\ b_success' = ({k \in 1..Len(b_violations) : b_violations[k].severity = "error"} = {})
    /\ b_pc' = "report"
    /\ UNCHANGED <<b_entry, b_instance, b_strict, b_files, b_index, b_results, b_exit,
                   otherVars>>

\* check_conflicts.main prints the report and returns the exit code to sys.exit
ConflictsExit ==
    /\ b_entry = "check_conflicts" /\ b_pc = "report"
    /\ b_exit' = conflicts_exit_status(b_success, b_strict, b_violations)
    /\ b_pc' = "exited"
    /\ UNCHANGED <<b_entry, b_instance, b_strict, b_files, b_index, b_violations,
                   b_results, b_success, otherVars>>

\* check_boundaries.main up to _check_files: without an instance
\* _handle_no_instance ends the run, without files the run ends with status 0
BoundariesMain ==
    /\ b_entry = "check_boundaries" /\ b_pc = "main"
    /\ IF b_instance = None
       THEN b_exit' = _handle_no_instance(b_strict) /\ b_pc' = "exited"
       ELSE IF b_files = <<>>
       THEN b_exit' = 0 /\ b_pc' = "exited"
       ELSE b_exit' = b_exit /\ b_pc' = "loop"
    /\ UNCHANGED <<b_entry, b_instance, b_strict, b_files, b_index, b_violations,
                   b_results, b_success, otherVars>>

\* one iteration of _check_files: check_file_boundaries, then the append to the list
\* of its result
CheckFiles ==
    /\ b_entry = "check_boundaries" /\ b_pc = "loop"
    /\ LET file_path_str == b_files[b_index + 1].path
           checked_file == check_file_boundaries(file_path_str, b_instance)
           entry == <<file_path_str, checked_file.reason>>
       IN  b_results' =
               IF checked_file.result = "VIOLATION"
               THEN [b_results EXCEPT !.violations = Append(@, entry)]
               ELSE IF checked_file.result = "WARNING"
               THEN [b_results EXCEPT !.warnings = Append(@, entry)]
               ELSE [b_results EXCEPT !.ok_files = Append(@, entry)]
    /\ b_index' = b_index + 1
    /\ b_pc' = IF b_index + 1 = Len(b_files) THEN "report" ELSE "loop"
    /\ UNCHANGED <<b_entry, b_instance, b_strict, b_files, b_violations, b_success,
                   b_exit, otherVars>>

\* check_boundaries.main displays the results and exits
BoundariesExit ==
    /\ b_entry = "check_boundaries" /\ b_pc = "report"
    /\ b_exit' = boundaries_exit_status(b_results, b_strict)
    /\ b_pc' = "exited"
    /\ UNCHANGED <<b_entry, b_instance, b_strict, b_files, b_index, b_violations,
                   b_results, b_success, otherVars>>

NextBatch ==
    \/ CheckAllBoundaries
    \/ CheckFile
    \/ SortAndReturn
    \/ ConflictsExit
    \/ BoundariesMain
    \/ CheckFiles
    \/ BoundariesExit

SpecBatch == InitBatch /\ [][NextBatch]_vars

\* the violations of the report of check_all_boundaries that are about file f
ReportedFor(f) ==
    {k \in 1..Len(b_violations) : b_violations[k].file_path = f.path}

InvalidSyntax(f) ==
    \* ".py"
    f.exists /\ PathSuffix(f.path) = <<".","p","y">> /\ f.content.kind = "syntax_error"

\* the run of check_all_boundaries has gone through its loop and returned
Returned == b_entry = "check_conflicts" /\ b_pc \in {"report", "exited"}

\* C17: in a batch holding a .py file of invalid syntax, the extractor raises a parse
\* failure for that file, check_imports turns it into exactly one warning of type
\* parse_error for that file, no exception leaves the file's check, and
\* check_all_boundaries checks every remaining file and returns the report.
C17_ParseFailureContained ==
    b_entry = "check_conflicts" =>
        /\ b_pc # "crashed"
        /\ \A k \in 1..b_index :
               InvalidSyntax(b_files[k]) =>
                   /\ extract_imports(b_files[k]).raised = "SyntaxError"
                   /\ \E n \in ReportedFor(b_files[k]) :
                          /\ b_violations[n].violation_type = "parse_error"
                          /\ b_violations[n].severity = "warning"
                          /\ \A o \in ReportedFor(b_files[k]) \ {n} :
                                 b_violations[o].violation_type \notin
                                     {"parse_error", "import"}
        /\ (Returned /\ b_instance # None /\ \E k \in 1..Len(b_files) :
                                                InvalidSyntax(b_files[k])) =>
               /\ b_index = Len(b_files)
               /\ \A k \in 1..Len(b_files) :
                      LET verdict == check_file_ownership(b_files[k].path, b_instance)
                      IN  verdict # NoBoundaryViolation =>
                              \E n \in ReportedFor(b_files[k]) : b_violations[n] = verdict

\* C17 witness: the first file of the batch does not parse, the second is checked all
\* the same and its cross-instance import is in the returned report.
C17_Witness ==
    /\ Returned /\ Len(b_files) = 2 /\ b_index = 2
    /\ InvalidSyntax(b_files[1])
    /\ \E n \in ReportedFor(b_files[1]) : b_violations[n].violation_type = "parse_error"
    /\ \E n \in ReportedFor(b_files[2]) : b_violations[n].violation_type = "import"

\* C18 as stated: a candidate file that is not on disk gets a warning-severity
\* violation in the report, and the batch continues with the remaining files.
C18_MissingFileWarned ==
    (Returned /\ b_instance # None) =>
        /\ b_index = Len(b_files)
        /\ \A k \in 1..Len(b_files) :
               ~b_files[k].exists =>
                   \E n \in ReportedFor(b_files[k]) : b_violations[n].severity = "warning"

\* C18 amended: a candidate file that is not on disk is skipped by check_imports
\* without a violation and without an exception; the report holds for it what
\* check_file_ownership says of its path, as for a file that exists, and nothing
\* else; the batch continues with the remaining files.
C18_MissingFileSkipped ==
    b_entry = "check_conflicts" =>
        /\ b_pc # "crashed"
        /\ \A k \in 1..b_index :
               ~b_files[k].exists =>
                   LET verdict == check_file_ownership(b_files[k].path, b_instance)
                   IN  /\ Cardinality(ReportedFor(b_files[k])) =
                              IF verdict = NoBoundaryViolation THEN 0 ELSE 1
                       /\ \A n \in ReportedFor(b_files[k]) : b_violations[n] = verdict
        /\ (Returned /\ b_instance # None) => b_index = Len(b_files)

\* C18 witness: a missing Python file of the instance's own directory leaves nothing
\* in the report, and the file after it is checked and reported.
C18_Witness ==
    /\ Returned /\ Len(b_files) = 2 /\ b_index = 2
    \* ".py"
    /\ ~b_files[1].exists /\ PathSuffix(b_files[1].path) = <<".","p","y">>
    /\ ReportedFor(b_files[1]) = {}
    /\ ReportedFor(b_files[2]) # {}

\* what the report of the run holds, for either entry point: check_conflicts reports
\* BoundaryViolations with a severity, check_boundaries lists violations and warnings
HasErrors ==
    IF b_entry = "check_conflicts"
    THEN \E k \in 1..Len(b_violations) : b_violations[k].severity = "error"
    ELSE b_results.violations # <<>>

HasWarnings ==
    IF b_entry = "check_conflicts"
    THEN \E k \in 1..Len(b_violations) : b_violations[k].severity = "warning"
    ELSE b_results.warnings # <<>>

\* C19 as stated: for both entry points the exit status is non-zero exactly when the
\* report holds an error-severity violation, or, in strict mode, a warning.
C19_ExitIffErrors ==
    b_pc = "exited" => (b_exit # 0 <=> (HasErrors \/ (b_strict /\ HasWarnings)))

\* C19 amended: check_conflicts.main exits 1 exactly when no instance can be detected,
\* or the report holds an error, or strict is set and the report holds any violation;
\* check_boundaries.main exits 1 exactly when strict is set and either no instance is
\* assigned or some file is a violation; every other run exits 0.
C19_ExitStatus ==
    b_pc = "exited" =>
        /\ b_exit \in {0, 1}
        /\ b_entry = "check_conflicts" =>
               (b_exit = 1 <=> \/ b_instance = None
                               \/ HasErrors
                               \/ b_strict /\ b_violations # <<>>)
        /\ b_entry = "check_boundaries" =>
               (b_exit = 1 <=> b_strict /\ (b_instance = None \/ HasErrors))

\* C19 witness: check_boundaries.main without --strict finds a violation and exits 0.
C19_Witness ==
    /\ b_pc = "exited" /\ b_entry = "check_boundaries" /\ ~b_strict
    /\ b_results.violations # <<>>
    /\ b_exit = 0

\* C20: the path-based verdict in the merged report is the BoundaryAllowed verdict:
\* for every candidate path and acting instance, check_all_boundaries reports an
\* error-severity path violation exactly when BoundaryAllowed(instance) is not
\* satisfied by the FilePath resolved from that path.
C20_OwnershipIsBoundaryAllowed ==
    (Returned /\ b_instance # None) =>
        \A k \in 1..Len(b_files) :
            (\E n \in ReportedFor(b_files[k]) :
                 /\ b_violations[n].violation_type \in {"ownership", "undefined"}
                 /\ b_violations[n].severity = "error")
            <=> ~is_satisfied_by(BoundaryAllowed(b_instance),
                                 from_path(b_files[k].path, INSTANCE_DIRECTORIES))

\* the positions of the report holding a violation of severity sev
OfSeverity(sev) == {n \in 1..Len(b_violations) : b_violations[n].severity = sev}

\* C21: in the report returned by check_all_boundaries every error precedes every
\* warning and every warning precedes every info, and within a severity class the
\* violations of one file are contiguous.
C21_SortedBySeverityGroupedByFile ==
    Returned =>
        /\ \A n \in OfSeverity("error"), o \in OfSeverity("warning") \cup OfSeverity("info") :
               n < o
        /\ \A n \in OfSeverity("warning"), o \in OfSeverity("info") : n < o
        /\ \A sev \in {"error", "warning", "info"} :
               \A n \in OfSeverity(sev), o \in OfSeverity(sev) :
                   (n < o /\ b_violations[n].file_path = b_violations[o].file_path) =>
                       \A q \in OfSeverity(sev) :
                           (n < q /\ q < o) =>
                               b_violations[q].file_path = b_violations[n].file_path

\* C21 witness: the file checked first leaves a warning, the file checked second an
\* ownership error and an import error; the report returned starts with the two
\* errors.
C21_Witness ==
    /\ Returned /\ Len(b_files) = 2 /\ Len(b_violations) = 3
    /\ b_violations[1].severity = "error" /\ b_violations[1].file_path = b_files[2].path
    /\ b_violations[2].severity = "error" /\ b_violations[2].file_path = b_files[2].path
    /\ b_violations[3].severity = "warning" /\ b_violations[3].file_path = b_files[1].path

\* the orders in which a set of files can be handed to the loop
Orders(fs) ==
    {t \in [1..Len(fs) -> SeqRange(fs)] : SeqRange(t) = SeqRange(fs)}

\* what the loop of check_all_boundaries collects over the files fs, before the sort
RECURSIVE collected(_, _)
collected(fs, inst) ==
    IF fs = <<>> THEN <<>>
    ELSE LET violation == check_file_ownership(Head(fs).path, inst)
         IN  (IF violation # NoBoundaryViolation THEN <<violation>> ELSE <<>>)
             \o check_imports(Head(fs), inst).value
             \o collected(Tail(fs), inst)

\* C22: for a fixed set of distinct candidate files and a fixed instance, the report
\* returned by check_all_boundaries is the same ordered list for every order in which
\* the files are processed.
C22_OrderIndependent ==
    (Returned /\ b_instance # None) =>
        \A t \in Orders(b_files) : sort(collected(t, b_instance)) = b_violations

\* C22 witness: two files that both leave an error, handed over in descending path
\* order; the report lists them in ascending path order.
C22_Witness ==
    /\ Returned /\ Len(b_files) = 2 /\ Len(b_violations) >= 2
    /\ StrLess(b_files[2].path, b_files[1].path)
    /\ b_violations[1].severity = "error" /\ b_violations[1].file_path = b_files[2].path
    /\ \E n \in 2..Len(b_violations) :
           /\ b_violations[n].severity = "error"
           /\ b_violations[n].file_path = b_files[1].path

\* the positions of a result list that hold the path
PositionsIn(list, p) == {k \in 1..Len(list) : list[k][1] = p}

\* C28: check_file_boundaries gives every path one verdict: VIOLATION exactly when the
\* resolved FilePath has a critical extension, is not shared, not a test file, not
\* config, and its owner (unset included) is not the acting instance; WARNING exactly
\* when the path is shared; OK otherwise.  _check_files puts every path it has checked
\* in exactly one of the three lists, which together have as many entries as paths
\* checked.
C28_OneVerdictPerPath ==
    b_entry = "check_boundaries" =>
        /\ Len(b_results.violations) + Len(b_results.warnings) + Len(b_results.ok_files)
               = b_index
        /\ \A k \in 1..b_index :
               LET p == b_files[k].path
                   fp == from_path(p, INSTANCE_DIRECTORIES)
                   in_violations == Cardinality(PositionsIn(b_results.violations, p))
                   in_warnings == Cardinality(PositionsIn(b_results.warnings, p))
                   in_ok_files == Cardinality(PositionsIn(b_results.ok_files, p))
               IN  /\ in_violations + in_warnings + in_ok_files = 1
                   /\ in_violations = 1 <=>
                          /\ fp.file_extension \in CRITICAL_EXTENSIONS
                          /\ ~fp.is_shared /\ ~fp.is_test_file /\ ~fp.is_config
                          /\ fp.instance_owner # b_instance
                   /\ in_warnings = 1 <=> fp.is_shared
                   /\ in_violations = 1 <=>
                          ~is_satisfied_by(create_boundary_rules(b_instance), fp)

\* C28 witness: a run has put a shared path under warnings and a critical file without
\* owner under violations.
C28_Witness ==
    /\ b_entry = "check_boundaries" /\ b_pc = "exited" /\ b_index = 2
    /\ Len(b_results.warnings) = 1 /\ Len(b_results.violations) = 1
    \* "scripts/a.py"
    /\ b_results.warnings[1][1] = <<"s","c","r","i","p","t","s","/","a",".","p","y">>
    \* "src/a.py"
    /\ b_results.violations[1][1] = <<"s","r","c","/","a",".","p","y">>
    /\ b_results.violations[1][2].owner = None

----------------------------------------------------------------------------
(* ValidateMappingsCommand.execute on any ownership map *)

MaxDirs == 2

    \* "src/a", "src/shared", "src/shared/"
ValidateDirectories == {<<"s","r","c","/","a">>, <<"s","r","c","/","s","h","a","r","e","d">>, <<"s","r","c","/","s","h","a","r","e","d","/">>}

ValidateNames == <<"instance1", "instance2">>

\* ctx.instances: one InstanceInfo per name, with any list of directories
InstanceLists ==
    {[k \in 1..Len(ValidateNames) |-> [name |-> ValidateNames[k], directories |-> ds[k]]] :
        ds \in [1..Len(ValidateNames) -> SeqsUpTo(ValidateDirectories, MaxDirs)]}

    \* "src/a", "src/shared"
Disks == SUBSET {<<"s","r","c","/","a">>, <<"s","r","c","/","s","h","a","r","e","d">>}

InitValidate ==
    /\ v_instances \in InstanceLists
    /\ v_disk \in Disks
    /\ v_pc = "instance"
    /\ v_i = 1
    /\ v_j = 1
    /\ v_all_valid = TRUE
    /\ v_all_paths = {}
    /\ v_output_lines = <<Line("Validating instance ownership mappings...", <<>>)>>
    /\ v_result = NoResult
    /\ BoundaryIdle
    /\ ImportIdle
    /\ HandleIdle
    /\ AlgebraIdle
    /\ ExtractIdle
    /\ BatchIdle
    /\ OwnershipIdle

restVars == <<boundaryVars, importVars, handleVars, algebraVars, extractVars, batchVars,
              ownershipVars>>

\* "for instance in ctx.instances": the header line of the next instance, or the end
\* of the loop
NextInstance ==
    /\ v_pc = "instance"
    /\ IF v_i <= Len(v_instances)
       THEN /\ v_output_lines' = Append(v_output_lines, Line("instance", v_instances[v_i].name))
            /\ v_j' = 1
            /\ v_pc' = "directory"
       ELSE /\ v_pc' = "summary"
            /\ UNCHANGED <<v_output_lines, v_j>>
    /\ UNCHANGED <<v_instances, v_disk, v_i, v_all_valid, v_all_paths, v_result, restVars>>

\* "for directory in instance.directories": one directory, or the end of the list
NextDirectory ==
    /\ v_pc = "directory"
    /\ IF v_j <= Len(v_instances[v_i].directories)
       THEN LET after == check_directory(v_all_valid, v_all_paths, v_output_lines,
                                         v_instances[v_i].directories[v_j], v_disk)
            IN  /\ v_all_valid' = after.all_valid
                /\ v_all_paths' = after.all_paths
                /\ v_output_lines' = after.output_lines
                /\ v_j' = v_j + 1
                /\ UNCHANGED <<v_i, v_pc>>
       ELSE /\ v_i' = v_i + 1
            /\ v_pc' = "instance"
            /\ UNCHANGED <<v_all_valid, v_all_paths, v_output_lines, v_j>>
    /\ UNCHANGED <<v_instances, v_disk, v_result, restVars>>

\* "Summary": the last line and the CommandResult
Summary ==
    /\ v_pc = "summary"
    /\ IF v_all_valid
       THEN /\ v_output_lines' = Append(v_output_lines, Line("All mappings are valid", <<>>))
            /\ v_result' = CommandResult_ok
       ELSE /\ v_output_lines' = Append(v_output_lines, Line("Issues found in mappings", <<>>))
            /\ v_result' = CommandResult_error(1)
    /\ v_pc' = "done"
    /\ UNCHANGED <<v_instances, v_disk, v_i, v_j, v_all_valid, v_all_paths, restVars>>

NextValidate == NextInstance \/ NextDirectory \/ Summary

SpecValidate == InitValidate /\ [][NextValidate]_vars

\* the declarations of the map, as (instance index, directory index)
Declarations ==
    {d \in (1..Len(v_instances)) \X (1..MaxDirs + 1) :
        d[2] <= Len(v_instances[d[1]].directories)}

Declared(d) == v_instances[d[1]].directories[d[2]]

\* d comes before e in the order execute() reads the map
Before(d, e) == d[1] < e[1] \/ (d[1] = e[1] /\ d[2] < e[2])

\* the declarations that repeat the literal string of an earlier one
Repeated == {e \in Declarations : \E d \in Declarations : Before(d, e) /\ Declared(d) = Declared(e)}

LinesMarked(mark) == {n \in 1..Len(v_output_lines) : v_output_lines[n].mark = mark}

\* C23 as stated: validation fails, with exit code 1 and one DUPLICATE OWNERSHIP line
\* per repeated declaration, exactly when some literal prefix is declared by two
\* different instances; a prefix missing on disk only adds a warning line.
C23_FailsIffTwoInstancesDeclare ==
    v_pc = "done" =>
        /\ ~v_result.success <=>
               \E d \in Declarations, e \in Declarations :
                   d[1] # e[1] /\ Declared(d) = Declared(e)
        /\ v_result.exit_code = IF v_result.success THEN 0 ELSE 1
        /\ Cardinality(LinesMarked("DUPLICATE OWNERSHIP")) = Cardinality(Repeated)

\* C23 amended: validation fails exactly when some literal prefix string is declared
\* more than once in the map, by two instances or twice by one; each declaration that
\* repeats an earlier one gets one DUPLICATE OWNERSHIP line and no existence check;
\* every first declaration gets one line saying whether it exists on disk, and a
\* missing one never makes the validation fail.
C23_FailsIffRepeatedDeclaration ==
    v_pc = "done" =>
        /\ ~v_result.success <=> Repeated # {}
        /\ v_result.exit_code = IF v_result.success THEN 0 ELSE 1
        /\ v_result.valid = v_result.success
        /\ Cardinality(LinesMarked("DUPLICATE OWNERSHIP")) = Cardinality(Repeated)
        /\ Cardinality(LinesMarked("ok")) + Cardinality(LinesMarked("does not exist yet"))
               = Cardinality(Declarations \ Repeated)
        /\ \A n \in LinesMarked("does not exist yet") :
               ~PathExists(v_output_lines[n].text, v_disk)

\* C23 witness: both instances declare src/shared, which does not exist on disk; one
\* warning line for the first declaration, one DUPLICATE OWNERSHIP line for the
\* second, failure with exit code 1.
C23_Witness ==
    /\ v_pc = "done"
    \* "src/shared"
    /\ v_instances[1].directories = <<<<"s","r","c","/","s","h","a","r","e","d">>>>
    \* "src/shared"
    /\ v_instances[2].directories = <<<<"s","r","c","/","s","h","a","r","e","d">>>>
    /\ v_disk = {}
    /\ Cardinality(LinesMarked("does not exist yet")) = 1
    /\ Cardinality(LinesMarked("DUPLICATE OWNERSHIP")) = 1
    /\ ~v_result.success /\ v_result.exit_code = 1

----------------------------------------------------------------------------
(* One call of BoundaryChecker.check_file_ownership *)

OwnershipPrefixes ==
    UNION {SeqRange(INSTANCE_BOUNDARIES[k].owned_paths) : k \in 1..Len(INSTANCE_BOUNDARIES)}
        \cup SeqRange(COMMON_PATHS)
        \* "src/", "src/mia_rag/", "tests/", "tests/unit/"
        \cup {<<>>, <<"s","r","c","/">>, <<"s","r","c","/","m","i","a","_","r","a","g","/">>, <<"t","e","s","t","s","/">>, <<"t","e","s","t","s","/","u","n","i","t","/">>,
              \* "tests/integration/", "docs/"
              <<"t","e","s","t","s","/","i","n","t","e","g","r","a","t","i","o","n","/">>, <<"d","o","c","s","/">>}

    \* "a.py", "x/a.py"
OwnershipStems == {<<>>, <<"a",".","p","y">>, <<"x","/","a",".","p","y">>}

\* str(file_path) of a file: not empty, no trailing separator
OwnershipPaths ==
    {p \in {pre \o stem : pre \in OwnershipPrefixes, stem \in OwnershipStems} :
        p # <<>> /\ p[Len(p)] # "/"}

InitOwnership ==
    /\ o_path \in OwnershipPaths
    /\ o_instance \in ActingInstances
    /\ o_pc = "call"
    /\ o_verdict = NoBoundaryViolation
    /\ BoundaryIdle
    /\ ImportIdle
    /\ HandleIdle
    /\ AlgebraIdle
    /\ ExtractIdle
    /\ BatchIdle
    /\ ValidateIdle

\* checker.check_file_ownership(file_path, instance)
CheckFileOwnership ==
    /\ o_pc = "call"
    /\ o_verdict' = check_file_ownership(o_path, o_instance)
    /\ o_pc' = "done"
    /\ UNCHANGED <<o_path, o_instance, boundaryVars, importVars, handleVars, algebraVars,
                   extractVars, batchVars, validateVars>>

NextOwnership == CheckFileOwnership

SpecOwnership == InitOwnership /\ [][NextOwnership]_vars

\* the path starts with a common path
UnderCommonPath == \E k \in 1..Len(COMMON_PATHS) : StartsWith(o_path, COMMON_PATHS[k])

\* the entries of INSTANCE_BOUNDARIES one of whose owned paths the path starts with
OwningEntries ==
    {k \in 1..Len(INSTANCE_BOUNDARIES) :
        \E j \in 1..Len(INSTANCE_BOUNDARIES[k].owned_paths) :
            StartsWith(o_path, INSTANCE_BOUNDARIES[k].owned_paths[j])}

OwnEntries == {k \in OwningEntries : INSTANCE_BOUNDARIES[k].instance = o_instance}

OtherEntries == OwningEntries \ OwnEntries

\* C29: check_file_ownership returns at most one violation, in this precedence: none
\* for a path under a common path; else none for a path under an owned path of the
\* acting instance; else an error of type ownership naming the first other instance
\* owning a prefix of the path; else a warning of type undefined.  No error is returned
\* for a path under no other instance's owned path.
C29_OwnershipPrecedence ==
    o_pc = "done" =>
        /\ UnderCommonPath => o_verdict = NoBoundaryViolation
        /\ (~UnderCommonPath /\ OwnEntries # {}) => o_verdict = NoBoundaryViolation
        /\ (~UnderCommonPath /\ OwnEntries = {} /\ OtherEntries # {}) =>
               /\ o_verdict.violation_type = "ownership"
               /\ o_verdict.severity = "error"
               /\ o_verdict.instance = o_instance
               /\ o_verdict.file_path = o_path
               /\ \E k \in OtherEntries :
                      /\ \A e \in OtherEntries : k <= e
                      /\ o_verdict.message.other_instance = INSTANCE_BOUNDARIES[k].instance
        /\ (~UnderCommonPath /\ OwnEntries = {} /\ OtherEntries = {}) =>
               /\ o_verdict.violation_type = "undefined"
               /\ o_verdict.severity = "warning"
               /\ o_verdict.file_path = o_path
        /\ OtherEntries = {} => o_verdict.violation_type \in {"None", "undefined"}

\* C29 witness: instance1 has been let through on a file of its own storage directory.
C29_Witness ==
    /\ o_pc = "done" /\ o_instance = "instance1"
    \* "src/mia_rag/storage/a.py"
    /\ o_path = <<"s","r","c","/","m","i","a","_","r","a","g","/","s","t","o","r","a","g","e","/","a",".","p","y">>
    /\ ~UnderCommonPath /\ OwnEntries # {}
    /\ o_verdict = NoBoundaryViolation

====
